---- MODULE Spec2Model ----
(***************************************************************************)
(* Request admission control of Multi_servs_aut: the Redis sliding-window  *)
(* RateLimiter, the key resolution and the rate_limit decorator of         *)
(* app/core/rate_limiting.py.                                              *)
(*                                                                         *)
(* The Redis server is the shared state: one sorted set per rate-limit     *)
(* key (member -> score) and the key's expiry.  Workers run the wrapper    *)
(* concurrently; every round trip to Redis is one atomic step (the         *)
(* MULTI/EXEC pipeline of is_allowed is one round trip, the two commands   *)
(* of get_remaining_requests are two).  A round trip may fail (Redis       *)
(* unreachable): the command then has no effect and raises in the client.  *)
(*                                                                         *)
(* The CacheManager of app/core/cache.py keeps string keys on the same     *)
(* server: an entry is the serialized value and its expiry.  get, set,     *)
(* delete and exists are one round trip each; clear_pattern is two (KEYS,  *)
(* DEL) and get_or_set is a get, the producer's call and a set.            *)
(***************************************************************************)
EXTENDS Integers, Sequences, FiniteSets, TLC

\* ---------------------------------------------------------------- bounds
MaxTime == 3        \* the clock runs over the seconds 0..MaxTime
MaxRequests == 3    \* requests served by the concurrent workers (Spec)
MaxCalls == 4       \* requests served one after the other (SpecWindow)
MaxLimit == 2       \* decorator limits are drawn from 1..MaxLimit
MaxWindow == 2      \* decorator windows are drawn from 1..MaxWindow, and 60
MaxOpCalls == 3     \* requests of one subject to two operations (SpecOps)
MaxTTL == 2         \* ttl arguments are drawn from None and -1..MaxTTL
MaxCacheOps == 3    \* get/set/delete calls of one worker (SpecCache)
MaxClearOps == 4    \* set and clear_pattern calls of two workers (SpecClear)
MaxGosCalls == 2    \* get_or_set calls of two workers (SpecGos)
MaxBatchCalls == 3  \* is_allowed calls of two workers on one key (SpecBatch)
MaxDownCalls == 3   \* get_or_set calls while the store is down (SpecDown)
MaxServices == 2     \* message.services holds at most MaxServices names (SpecSend)
MaxOverwriteOps == 3 \* set and get calls of two workers on one key (SpecOverwrite)
MaxDeleteOps == 3    \* set/delete/exists/get calls on two keys (SpecDelete)
MaxSharedOps == 3   \* cache and limiter calls on the one keyspace (SpecShared)
MaxTtlOps == 3      \* get/set/delete/exists calls of one worker (SpecTtl)

\* CacheManager(redis_client, default_ttl=3600): the instance default TTL
DefaultTTL == 3600

\* rate_limit(limit, window=60): the decorator's default window
DefaultWindow == 60

Times == 0..MaxTime
Procs == {"w1", "w2"}                  \* worker processes sharing the Redis server
None == <<>>                           \* Optional[int]: None, or <<id>>
UserIds == {0, 7}                      \* values of request.state.user_id
Hosts == {"7"}                         \* values of request.client.host
Limits == 1..MaxLimit
Windows == (1..MaxWindow) \cup {DefaultWindow}

\* ------------------------------------------------------- key resolution
\* Python truthiness of an Optional[int]: None and 0 are falsy.
Truthy(user_id) == user_id # None /\ user_id[1] # 0

get_rate_limit_key(host, user_id) ==
    IF Truthy(user_id)
    THEN "rate_limit:user:" \o ToString(user_id[1])
    ELSE "rate_limit:ip:" \o host

\* every key a request of the model can resolve to, and the subject keys
AllKeys == {get_rate_limit_key(h, u) : h \in Hosts, u \in {None} \cup {<<i>> : i \in UserIds}}

\* ------------------------------------------------- Redis sorted-set commands
\* A sorted set is a set of <<member, score>> pairs, one pair per member.
\* (mutant: nothing is removed)
ZRemRangeByScoreNone(s, lo, hi) == s

\* (mutant: the upper bound taken as exclusive)
ZRemRangeByScoreExclusive(s, lo, hi) == {e \in s : ~(lo <= e[2] /\ e[2] < hi)}

ZRemRangeByScore(s, lo, hi) == {e \in s : ~(lo <= e[2] /\ e[2] <= hi)}

ZCard(s) == Cardinality(s)

\* (mutant: every call adds a member of its own)
ZAddFresh(s, member, score) ==
    s \cup {<<member \o "-" \o ToString(Cardinality(s)), score>>}

ZAdd(s, member, score) == {e \in s : e[1] # member} \cup {<<member, score>>}

\* ------------------------------------------------------------ RateLimiter
\* The pipeline of is_allowed: zremrangebyscore, zcard, zadd, expire, applied
\* by pipe.execute() as one unit.  results[1] is the zcard reply.
\* (mutant: the request is added before the count is taken)
PipelineCountsSelf(s, current_time, window) ==
    LET window_start == current_time - window
        evicted == ZRemRangeByScore(s, 0, window_start)
        added == ZAdd(evicted, ToString(current_time), current_time)
    IN  [set |-> added, count |-> ZCard(added), expire |-> current_time + window]

\* (mutant: the key is given one second more than the window)
PipelineExpiresLate(s, current_time, window) ==
    LET window_start == current_time - window
        evicted == ZRemRangeByScore(s, 0, window_start)
        current_count == ZCard(evicted)
        added == ZAdd(evicted, ToString(current_time), current_time)
    IN  [set |-> added, count |-> current_count, expire |-> current_time + window + 1]

PipelineExecute(s, current_time, window) ==
    LET window_start == current_time - window
        evicted == ZRemRangeByScore(s, 0, window_start)
        current_count == ZCard(evicted)
        added == ZAdd(evicted, ToString(current_time), current_time)
    IN  [set |-> added, count |-> current_count, expire |-> current_time + window]

\* (mutant: the request itself is counted against the limit)
CountAllowsStrict(current_count, limit) == current_count + 1 < limit

\* the decision of a completed pipeline
CountAllows(current_count, limit) == current_count < limit

\* (mutant: the except branch denies)
FailClosed == [result |-> FALSE, raised |-> FALSE]

\* (mutant: no except branch, the store error leaves is_allowed)
FailRaises == [result |-> FALSE, raised |-> TRUE]

\* the except branch of is_allowed: what the call returns on a store error
FailOpen == [result |-> TRUE, raised |-> FALSE]

\* (mutant: a failed round trip has already applied the zadd)
is_allowedPartial(s, exp, current_time, limit, window, ok) ==
    IF ok
    THEN LET r == PipelineExecute(s, current_time, window)
         IN  [result |-> CountAllows(r.count, limit), raised |-> FALSE,
              failed |-> FALSE, count |-> r.count, set |-> r.set, expire |-> r.expire]
    ELSE [result |-> FailOpen.result, raised |-> FailOpen.raised,
          failed |-> TRUE, count |-> -1,
          set |-> ZAdd(s, ToString(current_time), current_time), expire |-> exp]

\* is_allowed(key, limit, window) at second current_time on the key's set s;
\* ok = FALSE: the round trip fails, nothing is applied, the exception is caught.
is_allowed(s, exp, current_time, limit, window, ok) ==
    IF ok
    THEN LET r == PipelineExecute(s, current_time, window)
         IN  [result |-> CountAllows(r.count, limit), raised |-> FALSE,
              failed |-> FALSE, count |-> r.count, set |-> r.set, expire |-> r.expire]
    ELSE [result |-> FailOpen.result, raised |-> FailOpen.raised,
          failed |-> TRUE, count |-> -1, set |-> s, expire |-> exp]

Max(a, b) == IF a >= b THEN a ELSE b

\* (mutant: the probe records an event of its own)
ProbeRecords(s, current_time, window) ==
    ZAdd(ZRemRangeByScore(s, 0, current_time - window),
         ToString(current_time), current_time)

\* get_remaining_requests, lines 74-78: the set after its zremrangebyscore
ProbeEvict(s, current_time, window) ==
    ZRemRangeByScore(s, 0, current_time - window)

\* (mutant: the difference is not clamped at 0)
RemainingUnclamped(limit, current_count) == limit - current_count

\* (mutant: the count is ignored)
RemainingOfLimit(limit, current_count) == limit

\* get_remaining_requests: the value returned after a successful zcard
RemainingOf(limit, current_count) == Max(0, limit - current_count)

\* (mutant: the except branch reports one more than the limit)
RemainingOverOnError(limit) == limit + 1

\* (mutant: the except branch reports nothing left)
RemainingNoneOnError(limit) == 0

\* get_remaining_requests: the value returned by its except branch
RemainingOnError(limit) == limit

\* --------------------------------------------------------- Python values
\* A Python object is [k |-> its type, v |-> its content]; the content of a
\* list or tuple is the sequence of its items, of a dict the sequence of its
\* <<key, value>> items, of a str or bytes its characters.
PyNone == [k |-> "NoneType", v |-> <<>>]
PyInt(n) == [k |-> "int", v |-> n]
PyStr(s) == [k |-> "str", v |-> s]
PyBytes(s) == [k |-> "bytes", v |-> s]
PyList(items) == [k |-> "list", v |-> items]
PyTuple(items) == [k |-> "tuple", v |-> items]
PyDict(items) == [k |-> "dict", v |-> items]
PyFunction == [k |-> "function", v |-> "<lambda>"]

\* repr(v) and str(v).  The str and bytes of the model hold no quote, no
\* backslash and no non-ASCII character, so nothing is escaped.
RECURSIVE Repr(_), ReprItems(_), ReprPairs(_)
Repr(x) ==
    CASE x.k = "NoneType" -> "None"
      [] x.k = "int" -> ToString(x.v)
      [] x.k = "str" -> "'" \o x.v \o "'"
      [] x.k = "bytes" -> "b'" \o x.v \o "'"
      [] x.k = "list" -> "[" \o ReprItems(x.v) \o "]"
      [] x.k = "tuple" -> "(" \o ReprItems(x.v) \o (IF Len(x.v) = 1 THEN ",)" ELSE ")")
      [] x.k = "dict" -> "{" \o ReprPairs(x.v) \o "}"
      [] x.k = "function" -> "<function " \o x.v \o ">"

ReprItems(items) ==
    IF items = <<>> THEN ""
    ELSE Repr(Head(items)) \o (IF Len(items) = 1 THEN "" ELSE ", " \o ReprItems(Tail(items)))

ReprPairs(items) ==
    IF items = <<>> THEN ""
    ELSE Repr(Head(items)[1]) \o ": " \o Repr(Head(items)[2])
         \o (IF Len(items) = 1 THEN "" ELSE ", " \o ReprPairs(Tail(items)))

Str(x) == IF x.k = "str" THEN x.v ELSE Repr(x)

\* ------------------------------------------------------------ json, pickle
\* A JSON document is [j |-> its kind, v |-> its content]; an object is the
\* sequence of its <<name, document>> members.
\* json.dumps raises TypeError on a dict key that is not a str, int, float,
\* bool or None; default= is not applied to keys.
RECURSIVE JsonEncodable(_)
JsonEncodable(x) ==
    CASE x.k \in {"list", "tuple"} -> \A i \in 1..Len(x.v) : JsonEncodable(x.v[i])
      [] x.k = "dict" -> \A i \in 1..Len(x.v) :
                            /\ x.v[i][1].k \in {"str", "int", "NoneType"}
                            /\ JsonEncodable(x.v[i][2])
      [] OTHER -> TRUE

\* the name json.dumps gives a dict key
JsonKey(x) ==
    CASE x.k = "str" -> x.v
      [] x.k = "int" -> ToString(x.v)
      [] x.k = "NoneType" -> "null"

\* the values json.dumps encodes by itself, without calling default=
RECURSIVE HasJsonForm(_)
HasJsonForm(x) ==
    CASE x.k \in {"list", "tuple"} -> \A i \in 1..Len(x.v) : HasJsonForm(x.v[i])
      [] x.k = "dict" -> \A i \in 1..Len(x.v) :
                            /\ x.v[i][1].k \in {"str", "int", "NoneType"}
                            /\ HasJsonForm(x.v[i][2])
      [] x.k \in {"bytes", "function"} -> FALSE
      [] OTHER -> TRUE

\* the document json.dumps(x, default=str) writes: a tuple is written as an
\* array, and what JSON has no form for as the string str(x)
RECURSIVE JsonDoc(_)
JsonDoc(x) ==
    CASE x.k = "NoneType" -> [j |-> "null", v |-> <<>>]
      [] x.k = "int" -> [j |-> "number", v |-> x.v]
      [] x.k = "str" -> [j |-> "string", v |-> x.v]
      [] x.k \in {"list", "tuple"} ->
            [j |-> "array", v |-> [i \in 1..Len(x.v) |-> JsonDoc(x.v[i])]]
      [] x.k = "dict" ->
            [j |-> "object",
             v |-> [i \in 1..Len(x.v) |-> <<JsonKey(x.v[i][1]), JsonDoc(x.v[i][2])>>]]
      [] OTHER -> [j |-> "string", v |-> Str(x)]

\* the text of a document, with the separators ", " and ": " of json.dumps
RECURSIVE JsonFormat(_), JsonItems(_), JsonMembers(_)
JsonFormat(d) ==
    CASE d.j = "null" -> "null"
      [] d.j = "number" -> ToString(d.v)
      [] d.j = "string" -> "\"" \o d.v \o "\""
      [] d.j = "array" -> "[" \o JsonItems(d.v) \o "]"
      [] d.j = "object" -> "{" \o JsonMembers(d.v) \o "}"

JsonItems(items) ==
    IF items = <<>> THEN ""
    ELSE JsonFormat(Head(items))
         \o (IF Len(items) = 1 THEN "" ELSE ", " \o JsonItems(Tail(items)))

JsonMembers(items) ==
    IF items = <<>> THEN ""
    ELSE "\"" \o Head(items)[1] \o "\": " \o JsonFormat(Head(items)[2])
         \o (IF Len(items) = 1 THEN "" ELSE ", " \o JsonMembers(Tail(items)))

\* the object json.loads builds from a document
RECURSIVE JsonObject(_)
JsonObject(d) ==
    CASE d.j = "null" -> PyNone
      [] d.j = "number" -> PyInt(d.v)
      [] d.j = "string" -> PyStr(d.v)
      [] d.j = "array" -> PyList([i \in 1..Len(d.v) |-> JsonObject(d.v[i])])
      [] d.j = "object" ->
            PyDict([i \in 1..Len(d.v) |-> <<PyStr(d.v[i][1]), JsonObject(d.v[i][2])>>])

\* pickle.dumps raises PicklingError on a lambda, wherever it is in the value
RECURSIVE Picklable(_)
Picklable(x) ==
    CASE x.k \in {"list", "tuple"} -> \A i \in 1..Len(x.v) : Picklable(x.v[i])
      [] x.k = "dict" -> \A i \in 1..Len(x.v) : Picklable(x.v[i][1]) /\ Picklable(x.v[i][2])
      [] x.k = "function" -> FALSE
      [] OTHER -> TRUE

\* A byte string of the store: whether it is valid UTF-8, the text it then
\* decodes to, the JSON document that text is (<<>> when it is none) and the
\* object it is the pickle of (<<>> when it is none).  A pickle starts with
\* the byte 0x80 and is never valid UTF-8.
JsonBytes(d) == [utf8 |-> TRUE, text |-> JsonFormat(d), doc |-> <<d>>, obj |-> <<>>]
PickleBytes(x) == [utf8 |-> FALSE, text |-> "", doc |-> <<>>, obj |-> <<x>>]

\* str(x).encode('utf-8'): the text is a JSON document when x is an int or a
\* list of such; the str of the model are no JSON texts
RECURSIVE PlainJson(_)
PlainJson(x) ==
    CASE x.k = "int" -> TRUE
      [] x.k = "list" -> \A i \in 1..Len(x.v) : PlainJson(x.v[i])
      [] OTHER -> FALSE

StrBytes(x) ==
    [utf8 |-> TRUE, text |-> Str(x),
     doc |-> IF PlainJson(x) THEN <<JsonDoc(x)>> ELSE <<>>, obj |-> <<>>]

\* (mutant: the serialize flag is ignored, the value is written as str(value))
SerializePlain(value, serialize) == [raised |-> FALSE, bytes |-> StrBytes(value)]

\* set, lines 73-82: json.dumps(value, default=str), pickle.dumps(value) on a
\* TypeError or ValueError, str(value).encode('utf-8') without serialize;
\* raised: the exception that leaves the inner try
Serialize(value, serialize) ==
    IF serialize
    THEN IF JsonEncodable(value)
         THEN [raised |-> FALSE, bytes |-> JsonBytes(JsonDoc(value))]
         ELSE IF Picklable(value)
         THEN [raised |-> FALSE, bytes |-> PickleBytes(value)]
         ELSE [raised |-> TRUE, bytes |-> <<>>]
    ELSE [raised |-> FALSE, bytes |-> StrBytes(value)]

\* get, lines 40-48: json.loads(value.decode('utf-8')), pickle.loads(value)
\* on a JSONDecodeError or UnicodeDecodeError, value.decode('utf-8') without
\* deserialize; raised: the exception that leaves the inner try
Deserialize(b, deserialize) ==
    IF deserialize
    THEN IF b.utf8 /\ b.doc # <<>>
         THEN [raised |-> FALSE, value |-> JsonObject(b.doc[1])]
         ELSE IF b.obj # <<>>
         THEN [raised |-> FALSE, value |-> b.obj[1]]
         ELSE [raised |-> TRUE, value |-> PyNone]
    ELSE IF b.utf8 THEN [raised |-> FALSE, value |-> PyStr(b.text)]
         ELSE [raised |-> TRUE, value |-> PyNone]

\* ------------------------------------------------------ Redis string keys
\* A key is the sequence of its characters; an entry of the store is <<>>
\* (no such key) or <<[data, exp]>>, exp = -1 for a key without expiry.
K == <<"k">>
Ns1 == <<"n", "s", ":", "1">>
Ns2 == <<"n", "s", ":", "2">>
Other1 == <<"o", "t", "h", "e", "r", ":", "1">>
CacheKeys == {K, Ns1, Ns2, Other1}
Patterns == {<<"n", "s", ":", "*">>, <<"*", "1">>, <<"n", "s", ":", "?">>}
Ttls == {None} \cup {<<n>> : n \in (-1)..MaxTTL}

\* the glob match of KEYS: * is any run of characters, ? any one character
RECURSIVE GlobMatch(_, _)
GlobMatch(pattern, key) ==
    IF pattern = <<>> THEN key = <<>>
    ELSE IF Head(pattern) = "*"
    THEN GlobMatch(Tail(pattern), key) \/ (key # <<>> /\ GlobMatch(pattern, Tail(key)))
    ELSE /\ key # <<>>
         /\ Head(pattern) = "?" \/ Head(pattern) = Head(key)
         /\ GlobMatch(Tail(pattern), Tail(key))

RedisGet(store, key) == store[key]

RedisExists(store, key) == IF store[key] # <<>> THEN 1 ELSE 0

\* (mutant: the pattern is ignored)
RedisKeysAll(store, pattern) == {k \in DOMAIN store : store[k] # <<>>}

\* KEYS pattern: the live keys that match
RedisKeys(store, pattern) == {k \in DOMAIN store : store[k] # <<>> /\ GlobMatch(pattern, k)}

\* (mutant: the value of a live key is kept, as SET NX would)
RedisSetexIfAbsent(store, key, seconds, data, t) ==
    IF seconds <= 0
    THEN [error |-> TRUE, store |-> store]
    ELSE [error |-> FALSE,
          store |-> IF store[key] # <<>> THEN store
                    ELSE [store EXCEPT ![key] = <<[data |-> data, exp |-> t + seconds]>>]]

\* (mutant: the value is replaced, a live key keeps its expiry)
RedisSetexKeepTtl(store, key, seconds, data, t) ==
    IF seconds <= 0
    THEN [error |-> TRUE, store |-> store]
    ELSE [error |-> FALSE,
          store |-> [store EXCEPT ![key] =
                        <<[data |-> data,
                           exp |-> IF store[key] # <<>> THEN store[key][1].exp
                                   ELSE t + seconds]>>]]

\* SETEX key seconds value: an error for seconds <= 0
RedisSetex(store, key, seconds, data, t) ==
    IF seconds <= 0
    THEN [error |-> TRUE, store |-> store]
    ELSE [error |-> FALSE,
          store |-> [store EXCEPT ![key] = <<[data |-> data, exp |-> t + seconds]>>]]

\* (mutant: only one of the keys is deleted)
RedisDeleteOne(store, keys) ==
    LET live == {k \in keys : store[k] # <<>>}
        one == IF live = {} THEN {} ELSE {CHOOSE k \in live : TRUE}
    IN  [store |-> [k \in DOMAIN store |-> IF k \in one THEN <<>> ELSE store[k]],
         count |-> Cardinality(one)]

\* (mutant: the reply is the number of keys named, removed or not)
RedisDeleteCountsNamed(store, keys) ==
    [store |-> [k \in DOMAIN store |-> IF k \in keys THEN <<>> ELSE store[k]],
     count |-> Cardinality(keys)]

\* (mutant: every key of the store is removed)
RedisFlush(store, keys) ==
    [store |-> [k \in DOMAIN store |-> <<>>],
     count |-> Cardinality({k \in DOMAIN store : store[k] # <<>>})]

\* DEL key [key ...]: the number of keys that were removed
RedisDelete(store, keys) ==
    [store |-> [k \in DOMAIN store |-> IF k \in keys THEN <<>> ELSE store[k]],
     count |-> Cardinality({k \in keys : store[k] # <<>>})]

\* (mutant: a key outlives its expiry by one second)
RedisExpireLate(store, t) ==
    [k \in DOMAIN store |->
        IF store[k] # <<>> /\ store[k][1].exp # -1 /\ store[k][1].exp < t
        THEN <<>> ELSE store[k]]

\* the keys whose expiry is reached at second t are gone
RedisExpire(store, t) ==
    [k \in DOMAIN store |->
        IF store[k] # <<>> /\ store[k][1].exp # -1 /\ store[k][1].exp <= t
        THEN <<>> ELSE store[k]]

\* ----------------------------------------------------------- CacheManager
\* (mutant: the ttl argument is passed on as given, None as 0)
TtlAsGiven(ttl) == IF ttl = None THEN 0 ELSE ttl[1]

\* ttl = ttl or self.default_ttl
TtlOrDefault(ttl) == IF Truthy(ttl) THEN ttl[1] ELSE DefaultTTL

\* the except branches: what each operation returns on an exception
\* (mutant: get has no outer except branch, the decode error leaves it)
GetExceptRaises == [raised |-> TRUE, value |-> PyNone]

GetExcept == [raised |-> FALSE, value |-> PyNone]

\* (mutant: set has no except branch, the store error leaves it)
SetExceptRaises == [raised |-> TRUE, flag |-> FALSE]

SetExcept == [raised |-> FALSE, flag |-> FALSE]

\* (mutant: delete answers True when the store cannot be reached)
DeleteExceptTrue == [raised |-> FALSE, flag |-> TRUE]

DeleteExcept == [raised |-> FALSE, flag |-> FALSE]
ExistsExcept == [raised |-> FALSE, flag |-> FALSE]
ClearExcept == [raised |-> FALSE, count |-> 0]

\* get(key, deserialize) on the store; ok = FALSE: the store cannot be reached
CacheGetResult(store, key, deserialize, ok) ==
    IF ~ok
    THEN [failed |-> TRUE, raised |-> GetExcept.raised, value |-> GetExcept.value]
    ELSE IF RedisGet(store, key) = <<>>
    THEN [failed |-> FALSE, raised |-> FALSE, value |-> PyNone]
    ELSE LET d == Deserialize(RedisGet(store, key)[1].data, deserialize)
         IN  IF d.raised
             THEN [failed |-> FALSE, raised |-> GetExcept.raised, value |-> GetExcept.value]
             ELSE [failed |-> FALSE, raised |-> FALSE, value |-> d.value]

\* set(key, value, ttl, serialize) at second t
CacheSetResult(store, key, value, ttl, serialize, t, ok) ==
    LET s == Serialize(value, serialize)
        r == RedisSetex(store, key, TtlOrDefault(ttl), s.bytes, t)
    IN  IF s.raised
        THEN [failed |-> FALSE, raised |-> SetExcept.raised, flag |-> SetExcept.flag,
              store |-> store]
        ELSE IF ~ok \/ r.error
        THEN [failed |-> ~ok, raised |-> SetExcept.raised, flag |-> SetExcept.flag,
              store |-> store]
        ELSE [failed |-> FALSE, raised |-> FALSE, flag |-> TRUE, store |-> r.store]

\* delete(key)
CacheDeleteResult(store, key, ok) ==
    IF ~ok
    THEN [failed |-> TRUE, raised |-> DeleteExcept.raised, flag |-> DeleteExcept.flag,
          store |-> store]
    ELSE LET r == RedisDelete(store, {key})
         IN  [failed |-> FALSE, raised |-> FALSE, flag |-> r.count # 0, store |-> r.store]

\* exists(key)
CacheExistsResult(store, key, ok) ==
    IF ~ok
    THEN [failed |-> TRUE, raised |-> ExistsExcept.raised, flag |-> ExistsExcept.flag]
    ELSE [failed |-> FALSE, raised |-> FALSE, flag |-> RedisExists(store, key) # 0]

\* ------------------------------------------------------------------ state
Ops == {"get_system_overview"}         \* the decorated operations

VARIABLES
    now,        \* int(time.time()): the current clock second
    quota,      \* op -> the (limit, window) its rate_limit decorator was given
    zset,       \* Redis: key -> sorted set of <<member, score>>
    expireAt,   \* Redis: key -> second at which the key expires, -1 if none
    pc,         \* worker -> "idle" | "rem_evict" | "rem_count"
    req,        \* worker -> the denied request it is building the rejection of,
                \*   with the current_time its get_remaining_requests call read
    out,        \* outcome of the most recent wrapper call that finished
    lastCall,   \* the most recent is_allowed call: its inputs and its result
    hist,       \* history: key -> second -> <<allowed, denied>> completed calls
    ncalls,     \* wrapper calls started so far
    tracking,   \* whether hist is recorded in this behaviour (fixed by Init)
    cstore,     \* Redis: cache key -> <<>> or <<[data, exp]>>
    cpc,        \* worker -> "idle" | "clear_delete" | "gos_produce" | "gos_set"
    creq,       \* worker -> the locals of its clear_pattern or get_or_set call
    cres,       \* worker -> the outcome of its most recent cache call
    lastSet,    \* history: cache key -> <<>> or <<the last set that wrote it>>
    ncops,      \* cache calls started so far
    send,       \* POST /messages/send: the locals of the request being served
    ws          \* the websocket ConnectionManager, its handlers and a broadcast

\* the variables of the limiter and of the cache
lvars == <<quota, zset, expireAt, pc, req, out, lastCall, hist, ncalls, tracking>>
cvars == <<cstore, cpc, creq, cres, lastSet, ncops>>

vars == <<now, quota, zset, expireAt, pc, req, out, lastCall, hist, ncalls, tracking,
          cstore, cpc, creq, cres, lastSet, ncops, send, ws>>

NoReq == [op |-> "", key |-> "", allowed |-> FALSE, failed |-> FALSE, count |-> -1,
          direct |-> FALSE, current_time |-> -1]
NoOut == [kind |-> "none", op |-> "", consulted |-> FALSE, allowed |-> FALSE,
          failed |-> FALSE, count |-> -1, bodyRan |-> FALSE, detail |-> <<>>,
          remFailed |-> FALSE, direct |-> FALSE]
NoCall == [n |-> 0, op |-> "", key |-> "", user_id |-> None, result |-> FALSE,
           raised |-> FALSE, failed |-> FALSE, count |-> -1]

NoCReq == [op |-> "", key |-> <<>>, pattern |-> <<>>, keys |-> {}, ttl |-> None,
           value |-> PyNone, produced |-> 0, quiet |-> TRUE, failed |-> FALSE]
NoCRes == [n |-> 0, op |-> "", key |-> <<>>, pattern |-> <<>>, keys |-> {},
           failed |-> FALSE, raised |-> FALSE, value |-> PyNone, flag |-> FALSE,
           count |-> 0, hit |-> FALSE, produced |-> 0, quiet |-> TRUE,
           ttl |-> None, deserialize |-> TRUE]

\* -------------------------------------------------------------- websocket
\* the sockets that may call /ws/connect and the ids of the users
MaxSockets == 2
MaxUsers == 2
Sockets == 1..MaxSockets
Users == 1..MaxUsers

\* active_connections is a dict: its entries in insertion order; a deleted
\* entry leaves a hole until the table is rebuilt, which does not happen with
\* fewer than six insertions; a hole is written <<>>
LiveIndexes(a) == {i \in DOMAIN a : a[i] # <<>>}
Registered(a) == {a[i][2] : i \in LiveIndexes(a)}
IndexOf(a, user_id) ==
    IF \E i \in LiveIndexes(a) : a[i][1] = user_id
    THEN CHOOSE i \in LiveIndexes(a) : a[i][1] = user_id
    ELSE 0

\* self.active_connections[user_id] = websocket (line 23)
DictSet(a, user_id, websocket) ==
    IF IndexOf(a, user_id) # 0
    THEN [a EXCEPT ![IndexOf(a, user_id)] = <<user_id, websocket>>]
    ELSE Append(a, <<user_id, websocket>>)

\* disconnect, lines 26-29
disconnect(a, user_id) ==
    IF IndexOf(a, user_id) # 0
    THEN [a EXCEPT ![IndexOf(a, user_id)] = <<>>]
    ELSE a

NoWs == [active |-> <<>>,
         hpc |-> [s \in Sockets |-> "new"],
         owner |-> [s \in Sockets |-> ""],
         live |-> [s \in Sockets |-> TRUE],
         last |-> [kind |-> "", to |-> 0, failed |-> FALSE],
         bc |-> [pc |-> "idle", pos |-> 0, used |-> 0, len |-> 0, start |-> {},
                 attempted |-> {}, failed |-> {}, quiet |-> TRUE]]

\* a running broadcast is no longer alone once another task changes the dict
Touched(w, a) ==
    [w EXCEPT !.active = a,
              !.bc.quiet = @ /\ (w.bc.pc # "iter" \/ a = w.active)]

\* send_personal_message, lines 31-37: send_text on the socket registered
\* for user_id; a failed send unregisters user_id
send_personal_message(w, kind, user_id) ==
    LET i == IndexOf(w.active, user_id)
    IN  IF i = 0 THEN w
        ELSE IF w.live[w.active[i][2]]
        THEN [w EXCEPT !.last = [kind |-> kind, to |-> w.active[i][2],
                                 failed |-> FALSE]]
        ELSE [Touched(w, disconnect(w.active, user_id))
                EXCEPT !.last = [kind |-> kind, to |-> w.active[i][2],
                                 failed |-> TRUE]]

\* the next entry of the dict iterator after position pos, or 0 at the end
NextEntry(a, pos) ==
    IF \E i \in LiveIndexes(a) : i > pos
    THEN CHOOSE i \in LiveIndexes(a) : i > pos /\ \A j \in LiveIndexes(a) : j > pos => i <= j
    ELSE 0

\* ------------------------------------------------------------ unified send
\* the names a caller may put in UnifiedMessage.services (any strings)
Services == {"slack", "telegram", "email"}

\* UnifiedMessage.slack_channel / telegram_chat_id: Optional[str]
Targets == {None, <<"">>, <<"C1">>}

\* `not message.slack_channel`: None and the empty string are both missing
Missing(target) == target = None \/ target[1] = ""

RECURSIVE SeqsUpTo(_, _)
SeqsUpTo(S, n) ==
    IF n = 0 THEN {<<>>}
    ELSE LET shorter == SeqsUpTo(S, n - 1)
         IN  shorter \cup {Append(q, x) : q \in shorter, x \in S}

\* the request bodies: services is a list, so names may repeat
Messages == [services : SeqsUpTo(Services, MaxServices),
             slack_channel : Targets, telegram_chat_id : Targets]

\* `"slack" in message.services`
Requested(message, service) ==
    \E i \in 1..Len(message.services) : message.services[i] = service

NoMessage == [services |-> <<>>, slack_channel |-> None, telegram_chat_id |-> None]
NoResponse == [ready |-> FALSE, success |-> FALSE, results |-> <<>>,
               total_sent |-> 0, total_failed |-> 0]
NoSend == [pc |-> "idle", message |-> NoMessage, results |-> <<>>, total_sent |-> 0,
           total_failed |-> 0, called |-> {}, response |-> NoResponse]

\* MessageResponse(success=..., service=...)
MessageResponse(success, service) == [success |-> success, service |-> service]

\* (mutant: the request succeeds as soon as one service was reached)
OverallSuccessAnySent(total_sent, total_failed) == total_sent > 0

\* UnifiedMessageResponse.success, line 94
OverallSuccess(total_sent, total_failed) == total_failed = 0

\* one of the two blocks of send_unified_message (lines 38-63, 66-91) applied
\* to the locals s: target is the channel / chat id of the service, success
\* the "success" entry of the dict the vendor service returns when called
SendTo(s, service, target, success) ==
    IF ~Requested(s.message, service) THEN s
    ELSE IF Missing(target)
    THEN [s EXCEPT !.results = Append(@, MessageResponse(FALSE, service)),
                   !.total_failed = @ + 1]
    ELSE [s EXCEPT !.results = Append(@, MessageResponse(success, service)),
                   !.called = @ \cup {service},
                   !.total_sent = IF success THEN @ + 1 ELSE @,
                   !.total_failed = IF success THEN @ ELSE @ + 1]

\* cache = CacheManager(): nothing cached, no call in flight
InitCache ==
    /\ cstore = [k \in CacheKeys |-> <<>>]
    /\ cpc = [p \in Procs |-> "idle"]
    /\ creq = [p \in Procs |-> NoCReq]
    /\ cres = [p \in Procs |-> NoCRes]
    /\ lastSet = [k \in CacheKeys |-> <<>>]
    /\ ncops = 0

InitState ==
    /\ InitCache
    /\ now = 0
    /\ quota \in [Ops -> [limit : Limits, window : Windows]]
    /\ zset = [k \in AllKeys |-> {}]
    /\ expireAt = [k \in AllKeys |-> -1]
    /\ pc = [p \in Procs |-> "idle"]
    /\ req = [p \in Procs |-> NoReq]
    /\ out = NoOut
    /\ lastCall = NoCall
    /\ hist = [k \in AllKeys |-> [t \in Times |-> <<0, 0>>]]
    /\ ncalls = 0
    /\ send = NoSend
    /\ ws = NoWs

\* concurrent workers, no call history kept
Init == InitState /\ tracking = FALSE

\* the call history of every key is kept
InitWindow == InitState /\ tracking = TRUE

\* another worker's command on the same key ends the "directly follows"
\* relation between a denied is_allowed and the probe that comes after it
Disturb(p, key) ==
    [q \in Procs |-> IF q # p /\ req[q].key = key
                     THEN [req[q] EXCEPT !.direct = FALSE] ELSE req[q]]

\* the 429 HTTPException of the wrapper: detail of lines 128-134
Rejection(limit, window, remaining) ==
    [limit |-> limit, window |-> window, remaining |-> remaining, retry_after |-> window]

\* (mutant: the wrapper ignores the decision)
BodyAlwaysRuns(r) == TRUE

\* the wrapper after is_allowed returned r: raise the rejection (after the
\* probe) when r.result is False, else run the body
BodyRuns(r) == r.result

\* ---------------------------------------------------------------- wrapper
\* wrapper(*args, **kwargs), lines 103-122 and 143: look for a Request among
\* the positional arguments (positional = one is there), resolve the key, call
\* is_allowed; run the body unless is_allowed returned False.
Wrapper(p, op, user_id, host, positional, ok) ==
    /\ pc[p] = "idle"
    /\ ncalls' = ncalls + 1
    /\ UNCHANGED <<now, quota, tracking, cvars, send, ws>>
    /\ IF ~positional
       THEN \* if not request: return await func(*args, **kwargs)
            /\ out' = [NoOut EXCEPT !.kind = "ran", !.op = op, !.bodyRan = TRUE]
            /\ UNCHANGED <<zset, expireAt, pc, req, lastCall, hist>>
       ELSE LET key == get_rate_limit_key(host, user_id)
                limit == quota[op].limit
                window == quota[op].window
                r == is_allowed(zset[key], expireAt[key], now, limit, window, ok)
            IN  /\ zset' = [zset EXCEPT ![key] = r.set]
                /\ expireAt' = [expireAt EXCEPT ![key] = r.expire]
                /\ lastCall' = [n |-> ncalls + 1, op |-> op, key |-> key,
                                user_id |-> user_id, result |-> r.result,
                                raised |-> r.raised, failed |-> r.failed,
                                count |-> r.count]
                /\ hist' = IF r.failed \/ ~tracking THEN hist
                           ELSE [hist EXCEPT ![key][now] =
                                    IF r.result THEN <<@[1] + 1, @[2]>>
                                    ELSE <<@[1], @[2] + 1>>]
                /\ IF r.raised
                   THEN \* an exception of is_allowed would leave the wrapper
                        /\ out' = [NoOut EXCEPT !.kind = "error", !.op = op,
                                     !.consulted = TRUE, !.failed = r.failed]
                        /\ pc' = pc
                        /\ req' = IF r.failed THEN req ELSE Disturb(p, key)
                   ELSE IF BodyRuns(r)
                   THEN \* return await func(*args, **kwargs)
                        /\ out' = [NoOut EXCEPT !.kind = "ran", !.op = op,
                                     !.consulted = TRUE, !.allowed = r.result,
                                     !.failed = r.failed, !.count = r.count,
                                     !.bodyRan = TRUE]
                        /\ pc' = pc
                        /\ req' = IF r.failed THEN req ELSE Disturb(p, key)
                   ELSE \* if not is_allowed: go on to get_remaining_requests
                        /\ out' = out
                        /\ pc' = [pc EXCEPT ![p] = "rem_evict"]
                        /\ req' = [Disturb(p, key) EXCEPT
                                     ![p] = [op |-> op, key |-> key, allowed |-> r.result,
                                             failed |-> r.failed, count |-> r.count,
                                             direct |-> TRUE, current_time |-> -1]]

\* the wrapper raises HTTPException(429), lines 126-141
Raise429(p, remaining, remFailed) ==
    LET limit == quota[req[p].op].limit
        window == quota[req[p].op].window
    IN  /\ out' = [NoOut EXCEPT !.kind = "rejected", !.op = req[p].op,
                     !.consulted = TRUE, !.allowed = req[p].allowed,
                     !.failed = req[p].failed, !.count = req[p].count,
                     !.detail = Rejection(limit, window, remaining),
                     !.remFailed = remFailed, !.direct = req[p].direct]
        /\ pc' = [pc EXCEPT ![p] = "idle"]
        /\ req' = [req EXCEPT ![p] = NoReq]

\* get_remaining_requests, lines 74-78: zremrangebyscore, its own round trip.
\* On an error the except branch returns and the wrapper raises the rejection.
RemainingEvict(p, ok) ==
    /\ pc[p] = "rem_evict"
    /\ UNCHANGED <<now, quota, lastCall, hist, ncalls, tracking, cvars, send, ws>>
    /\ LET key == req[p].key
           limit == quota[req[p].op].limit
           window == quota[req[p].op].window
           evicted == ProbeEvict(zset[key], now, window)
       IN  IF ok
           THEN /\ zset' = [zset EXCEPT ![key] = evicted]
                /\ expireAt' = [expireAt EXCEPT ![key] = IF evicted = {} THEN -1 ELSE @]
                /\ pc' = [pc EXCEPT ![p] = "rem_count"]
                /\ req' = [Disturb(p, key) EXCEPT ![p].current_time = now]
                /\ out' = out
           ELSE /\ Raise429(p, RemainingOnError(limit), TRUE)
                /\ UNCHANGED <<zset, expireAt>>

\* get_remaining_requests, lines 81-86, and the raise of lines 126-141
RemainingCount(p, ok) ==
    /\ pc[p] = "rem_count"
    /\ UNCHANGED <<now, quota, zset, expireAt, lastCall, hist, ncalls, tracking, cvars, send, ws>>
    /\ LET limit == quota[req[p].op].limit
       IN  IF ok
           THEN Raise429(p, RemainingOf(limit, ZCard(zset[req[p].key])), FALSE)
           ELSE Raise429(p, RemainingOnError(limit), TRUE)

\* the clock advances one second; Redis drops the keys whose expiry is reached
Tick ==
    /\ now < MaxTime
    /\ now' = now + 1
    /\ zset' = [k \in AllKeys |->
                  IF expireAt[k] # -1 /\ expireAt[k] <= now + 1 THEN {} ELSE zset[k]]
    /\ expireAt' = [k \in AllKeys |->
                  IF expireAt[k] # -1 /\ expireAt[k] <= now + 1 THEN -1 ELSE expireAt[k]]
    /\ req' = [q \in Procs |-> IF pc[q] = "idle" THEN req[q]
                               ELSE [req[q] EXCEPT !.direct = FALSE]]
    /\ cstore' = RedisExpire(cstore, now + 1)
    /\ UNCHANGED <<quota, pc, out, lastCall, hist, ncalls, tracking>>
    /\ UNCHANGED <<cpc, creq, cres, lastSet, ncops, send, ws>>

Identities == {None} \cup {<<i>> : i \in UserIds}

Next ==
    \/ /\ ncalls < MaxRequests
       /\ \E p \in Procs, op \in Ops, u \in Identities, h \in Hosts,
             positional \in BOOLEAN, ok \in BOOLEAN :
             Wrapper(p, op, u, h, positional, ok)
    \/ \E p \in Procs, ok \in BOOLEAN : RemainingEvict(p, ok)
    \/ \E p \in Procs, ok \in BOOLEAN : RemainingCount(p, ok)
    \/ Tick

Spec == Init /\ [][Next]_vars

\* One worker serving the requests of one authenticated subject one after the
\* other, with the history of the key kept.
NextWindow ==
    \/ /\ ncalls < MaxCalls
       /\ \E op \in Ops, h \in Hosts, ok \in BOOLEAN :
             Wrapper("w1", op, <<7>>, h, TRUE, ok)
    \/ \E ok \in BOOLEAN : RemainingEvict("w1", ok)
    \/ \E ok \in BOOLEAN : RemainingCount("w1", ok)
    \/ Tick

SpecWindow == InitWindow /\ [][NextWindow]_vars

\* Two workers serving the requests of one authenticated subject at the same
\* time, with the history of the key kept.
NextBatch ==
    \/ /\ ncalls < MaxBatchCalls
       /\ \E p \in Procs, op \in Ops, h \in Hosts, ok \in BOOLEAN :
             Wrapper(p, op, <<7>>, h, TRUE, ok)
    \/ \E p \in Procs, ok \in BOOLEAN : RemainingEvict(p, ok)
    \/ \E p \in Procs, ok \in BOOLEAN : RemainingCount(p, ok)
    \/ Tick

SpecBatch == InitWindow /\ [][NextBatch]_vars

\* Two decorated endpoints of app/api/v1/admin.py, each with the quota of its
\* own decorator, called by one authenticated subject.
AdminOps == {"get_system_overview", "deactivate_user"}

InitOps ==
    /\ InitCache
    /\ now = 0
    /\ quota \in [AdminOps -> [limit : Limits, window : Windows]]
    /\ zset = [k \in AllKeys |-> {}]
    /\ expireAt = [k \in AllKeys |-> -1]
    /\ pc = [p \in Procs |-> "idle"]
    /\ req = [p \in Procs |-> NoReq]
    /\ out = NoOut
    /\ lastCall = NoCall
    /\ hist = [k \in AllKeys |-> [t \in Times |-> <<0, 0>>]]
    /\ ncalls = 0
    /\ send = NoSend
    /\ ws = NoWs
    /\ tracking = FALSE

NextOps ==
    \/ /\ ncalls < MaxOpCalls
       /\ \E op \in AdminOps, h \in Hosts, ok \in BOOLEAN :
             Wrapper("w1", op, <<7>>, h, TRUE, ok)
    \/ \E ok \in BOOLEAN : RemainingEvict("w1", ok)
    \/ \E ok \in BOOLEAN : RemainingCount("w1", ok)
    \/ Tick

SpecOps == InitOps /\ [][NextOps]_vars

\* ------------------------------------------------------- cache operations
\* the values callers cache: a JSON-shaped dict, a tuple, None, a binary blob,
\* dicts that json.dumps refuses (a tuple as key) and a dict with an int key
DictA == PyDict(<< <<PyStr("a"), PyInt(1)>> >>)
Pair == PyTuple(<<PyInt(1), PyInt(2)>>)
Blob == PyBytes("GIF89a")
DictTupleKey == PyDict(<< <<Pair, PyStr("x")>> >>)
DictIntKey == PyDict(<< <<PyInt(1), PyStr("a")>> >>)
DictLambda == PyDict(<< <<Pair, PyFunction>> >>)
Values == {DictA, Pair, PyNone, Blob, DictTupleKey, DictIntKey, DictLambda}

\* a write by worker p ends the quiet of the clear_pattern calls in flight
Unquiet(p) ==
    [q \in Procs |-> IF q # p THEN [creq[q] EXCEPT !.quiet = FALSE] ELSE creq[q]]

\* await cache.get(key, deserialize), lines 20-52
CacheGet(p, key, deserialize, ok) ==
    /\ cpc[p] = "idle"
    /\ LET r == CacheGetResult(cstore, key, deserialize, ok)
       IN  cres' = [cres EXCEPT ![p] =
                      [NoCRes EXCEPT !.n = ncops + 1, !.op = "get", !.key = key,
                                     !.failed = r.failed, !.raised = r.raised,
                                     !.value = r.value, !.deserialize = deserialize]]
    /\ ncops' = ncops + 1
    /\ UNCHANGED <<now, lvars, send, ws, cstore, cpc, creq, lastSet>>

\* await cache.set(key, value, ttl, serialize), lines 54-89
CacheSet(p, key, value, ttl, serialize, ok) ==
    /\ cpc[p] = "idle"
    /\ LET r == CacheSetResult(cstore, key, value, ttl, serialize, now, ok)
       IN  /\ cstore' = r.store
           /\ cres' = [cres EXCEPT ![p] =
                         [NoCRes EXCEPT !.n = ncops + 1, !.op = "set", !.key = key,
                                        !.failed = r.failed, !.raised = r.raised,
                                        !.flag = r.flag, !.value = value,
                                        !.ttl = ttl]]
           /\ lastSet' = IF r.flag
                         THEN [lastSet EXCEPT ![key] =
                                 <<[t |-> now, ttl |-> ttl, v |-> value, ser |-> serialize]>>]
                         ELSE lastSet
           /\ creq' = IF r.flag THEN Unquiet(p) ELSE creq
    /\ ncops' = ncops + 1
    /\ UNCHANGED <<now, lvars, send, ws, cpc>>

\* await cache.delete(key), lines 91-97
CacheDelete(p, key, ok) ==
    /\ cpc[p] = "idle"
    /\ LET r == CacheDeleteResult(cstore, key, ok)
       IN  /\ cstore' = r.store
           /\ cres' = [cres EXCEPT ![p] =
                         [NoCRes EXCEPT !.n = ncops + 1, !.op = "delete", !.key = key,
                                        !.failed = r.failed, !.raised = r.raised,
                                        !.flag = r.flag]]
           /\ lastSet' = IF r.failed THEN lastSet ELSE [lastSet EXCEPT ![key] = <<>>]
           /\ creq' = IF r.flag /\ ~r.failed THEN Unquiet(p) ELSE creq
    /\ ncops' = ncops + 1
    /\ UNCHANGED <<now, lvars, send, ws, cpc>>

\* await cache.exists(key), lines 99-105
CacheExists(p, key, ok) ==
    /\ cpc[p] = "idle"
    /\ LET r == CacheExistsResult(cstore, key, ok)
       IN  cres' = [cres EXCEPT ![p] =
                      [NoCRes EXCEPT !.n = ncops + 1, !.op = "exists", !.key = key,
                                     !.failed = r.failed, !.raised = r.raised,
                                     !.flag = r.flag]]
    /\ ncops' = ncops + 1
    /\ UNCHANGED <<now, lvars, send, ws, cstore, cpc, creq, lastSet>>

\* clear_pattern(pattern), lines 109-110: keys = self.redis.keys(pattern);
\* with no key the call returns 0, on an error the except branch returns
ClearEnumerate(p, pattern, ok) ==
    /\ cpc[p] = "idle"
    /\ ncops' = ncops + 1
    /\ UNCHANGED <<now, lvars, send, ws, cstore, lastSet>>
    /\ LET keys == RedisKeys(cstore, pattern)
       IN  IF ok /\ keys # {}
           THEN /\ cpc' = [cpc EXCEPT ![p] = "clear_delete"]
                /\ creq' = [creq EXCEPT ![p] =
                              [NoCReq EXCEPT !.op = "clear_pattern", !.pattern = pattern,
                                             !.keys = keys]]
                /\ cres' = cres
           ELSE /\ cres' = [cres EXCEPT ![p] =
                              [NoCRes EXCEPT !.n = ncops + 1, !.op = "clear_pattern",
                                             !.pattern = pattern, !.failed = ~ok,
                                             !.raised = IF ok THEN FALSE ELSE ClearExcept.raised,
                                             !.count = IF ok THEN 0 ELSE ClearExcept.count]]
                /\ UNCHANGED <<cpc, creq>>

\* clear_pattern, lines 111-112: return self.redis.delete(*keys)
ClearDelete(p, ok) ==
    /\ cpc[p] = "clear_delete"
    /\ UNCHANGED <<now, lvars, send, ws, ncops>>
    /\ LET r == RedisDelete(cstore, creq[p].keys)
           gone == {k \in creq[p].keys : cstore[k] # <<>>}
       IN  /\ cstore' = IF ok THEN r.store ELSE cstore
           /\ lastSet' = IF ok THEN [k \in CacheKeys |-> IF k \in gone THEN <<>> ELSE lastSet[k]]
                         ELSE lastSet
           /\ cres' = [cres EXCEPT ![p] =
                         [NoCRes EXCEPT !.n = ncops, !.op = "clear_pattern",
                                        !.pattern = creq[p].pattern, !.keys = creq[p].keys,
                                        !.quiet = creq[p].quiet, !.failed = ~ok,
                                        !.raised = IF ok THEN FALSE ELSE ClearExcept.raised,
                                        !.count = IF ok THEN r.count ELSE ClearExcept.count]]
           /\ cpc' = [cpc EXCEPT ![p] = "idle"]
           /\ creq' = [(IF ok /\ gone # {} THEN Unquiet(p) ELSE creq) EXCEPT ![p] = NoCReq]

\* (mutant: the producer is called whatever get returned)
IsHitNever(value) == FALSE

\* (mutant: whatever get returned is taken as the cached value)
IsHitAlways(value) == TRUE

\* get_or_set line 139, cache_result line 161: if value is not None
IsHit(value) == value # PyNone

\* get_or_set(key, factory_func, ttl), lines 138-140, and the wrapper of
\* cache_result, lines 160-162: value = await self.get(key), returned when it
\* is not None
GosGet(p, key, ttl, ok) ==
    /\ cpc[p] = "idle"
    /\ ncops' = ncops + 1
    /\ UNCHANGED <<now, lvars, send, ws, cstore, lastSet>>
    /\ LET r == CacheGetResult(cstore, key, TRUE, ok)
       IN  IF r.raised
           THEN \* an exception of get would leave get_or_set
                /\ cres' = [cres EXCEPT ![p] =
                              [NoCRes EXCEPT !.n = ncops + 1, !.op = "get_or_set",
                                             !.key = key, !.ttl = ttl, !.raised = TRUE]]
                /\ UNCHANGED <<cpc, creq>>
           ELSE IF IsHit(r.value)
           THEN /\ cres' = [cres EXCEPT ![p] =
                              [NoCRes EXCEPT !.n = ncops + 1, !.op = "get_or_set",
                                             !.key = key, !.ttl = ttl, !.hit = TRUE,
                                             !.value = r.value]]
                /\ UNCHANGED <<cpc, creq>>
           ELSE /\ cpc' = [cpc EXCEPT ![p] = "gos_produce"]
                /\ creq' = [creq EXCEPT ![p] =
                              [NoCReq EXCEPT !.op = "get_or_set", !.key = key, !.ttl = ttl,
                                             !.failed = r.failed]]
                /\ cres' = cres

\* lines 143 and 165: value = await factory_func(*args, **kwargs)
GosProduce(p, value) ==
    /\ cpc[p] = "gos_produce"
    /\ cpc' = [cpc EXCEPT ![p] = "gos_set"]
    /\ creq' = [creq EXCEPT ![p].value = value, ![p].produced = @ + 1]
    /\ UNCHANGED <<now, lvars, send, ws, cstore, cres, lastSet, ncops>>

\* lines 144-145 and 168-170: await self.set(key, value, ttl); return value
GosSet(p, ok) ==
    /\ cpc[p] = "gos_set"
    /\ UNCHANGED <<now, lvars, send, ws, ncops>>
    /\ LET r == CacheSetResult(cstore, creq[p].key, creq[p].value, creq[p].ttl, TRUE, now, ok)
       IN  /\ cstore' = r.store
           /\ lastSet' = IF r.flag
                         THEN [lastSet EXCEPT ![creq[p].key] =
                                 <<[t |-> now, ttl |-> creq[p].ttl, v |-> creq[p].value,
                                    ser |-> TRUE]>>]
                         ELSE lastSet
           /\ cres' = [cres EXCEPT ![p] =
                         [NoCRes EXCEPT !.n = ncops, !.op = "get_or_set",
                                        !.key = creq[p].key, !.ttl = creq[p].ttl,
                                        !.hit = FALSE, !.produced = creq[p].produced,
                                        !.value = IF r.raised THEN PyNone ELSE creq[p].value,
                                        !.flag = r.flag, !.failed = r.failed,
                                        !.raised = r.raised]]
           /\ cpc' = [cpc EXCEPT ![p] = "idle"]
           /\ creq' = [(IF r.flag THEN Unquiet(p) ELSE creq) EXCEPT ![p] = NoCReq]

\* the limiter of a cache-only behaviour: constructed, never called
InitCacheOnly ==
    /\ InitCache
    /\ now = 0
    /\ quota = [op \in Ops |-> [limit |-> 1, window |-> DefaultWindow]]
    /\ zset = [k \in AllKeys |-> {}]
    /\ expireAt = [k \in AllKeys |-> -1]
    /\ pc = [p \in Procs |-> "idle"]
    /\ req = [p \in Procs |-> NoReq]
    /\ out = NoOut
    /\ lastCall = NoCall
    /\ hist = [k \in AllKeys |-> [t \in Times |-> <<0, 0>>]]
    /\ ncalls = 0
    /\ send = NoSend
    /\ ws = NoWs
    /\ tracking = FALSE

\* One worker writing values of every kind to one key and reading them back.
NextCache ==
    \/ /\ ncops < MaxCacheOps
       /\ \/ \E deserialize \in BOOLEAN, ok \in BOOLEAN : CacheGet("w1", K, deserialize, ok)
          \/ \E value \in Values, ttl \in {None, <<1>>}, serialize \in BOOLEAN :
                CacheSet("w1", K, value, ttl, serialize, TRUE)
          \/ CacheDelete("w1", K, TRUE)
    \/ Tick

SpecCache == InitCacheOnly /\ [][NextCache]_vars

\* One worker writing one key with every ttl argument, the store reachable
\* or not.
NextTtl ==
    \/ /\ ncops < MaxTtlOps
       /\ \/ \E ok \in BOOLEAN : CacheGet("w1", K, TRUE, ok)
          \/ \E value \in {DictA, DictLambda}, ttl \in Ttls, ok \in BOOLEAN :
                CacheSet("w1", K, value, ttl, TRUE, ok)
          \/ \E ok \in BOOLEAN : CacheDelete("w1", K, ok)
          \/ \E ok \in BOOLEAN : CacheExists("w1", K, ok)
          \/ \E ok \in BOOLEAN : ClearEnumerate("w1", <<"*">>, ok)
    \/ \E ok \in BOOLEAN : ClearDelete("w1", ok)
    \/ Tick

SpecTtl == InitCacheOnly /\ [][NextTtl]_vars

\* One worker clearing patterns while another one writes the keys.
NextClear ==
    \/ /\ ncops < MaxClearOps
       /\ \/ \E pattern \in Patterns, ok \in BOOLEAN : ClearEnumerate("w1", pattern, ok)
          \/ \E key \in {Ns1, Ns2, Other1} :
                CacheSet("w2", key, DictA, None, TRUE, TRUE)
    \/ \E ok \in BOOLEAN : ClearDelete("w1", ok)
    \/ Tick

SpecClear == InitCacheOnly /\ [][NextClear]_vars

\* One worker setting, deleting and probing two keys, the store reachable or
\* not.
NextDelete ==
    \/ /\ ncops < MaxDeleteOps
       /\ \/ \E key \in {Ns1, Ns2} : CacheSet("w1", key, DictA, <<1>>, TRUE, TRUE)
          \/ \E key \in {Ns1, Ns2}, ok \in BOOLEAN : CacheDelete("w1", key, ok)
          \/ \E key \in {Ns1, Ns2}, ok \in BOOLEAN : CacheExists("w1", key, ok)
          \/ \E key \in {Ns1, Ns2} : CacheGet("w1", key, TRUE, TRUE)
    \/ Tick

SpecDelete == InitCacheOnly /\ [][NextDelete]_vars

\* Two workers writing one key, each its own value, with different ttls, and
\* one of them reading it.
OwnValue == [w1 |-> DictA, w2 |-> PyInt(1)]

NextOverwrite ==
    \/ /\ ncops < MaxOverwriteOps
       /\ \/ \E p \in Procs, ttl \in {<<n>> : n \in 1..MaxTTL}, ok \in BOOLEAN :
                CacheSet(p, K, OwnValue[p], ttl, TRUE, ok)
          \/ CacheGet("w1", K, TRUE, TRUE)
    \/ Tick

SpecOverwrite == InitCacheOnly /\ [][NextOverwrite]_vars

\* Two workers calling get_or_set on one key; the producer answers 1, 2 or None.
ProducerResults == {PyInt(1), PyInt(2), PyNone}

NextGos ==
    \/ /\ ncops < MaxGosCalls
       /\ \E p \in Procs, ttl \in {None, <<1>>}, ok \in BOOLEAN : GosGet(p, K, ttl, ok)
    \/ \E p \in Procs, value \in ProducerResults : GosProduce(p, value)
    \/ \E p \in Procs, ok \in BOOLEAN : GosSet(p, ok)
    \/ Tick

SpecGos == InitCacheOnly /\ [][NextGos]_vars

\* Two workers calling get_or_set while the store cannot be reached.
NextDown ==
    \/ /\ ncops < MaxDownCalls
       /\ \E p \in Procs, ttl \in {None, <<1>>} : GosGet(p, K, ttl, FALSE)
    \/ \E p \in Procs, value \in ProducerResults : GosProduce(p, value)
    \/ \E p \in Procs : GosSet(p, FALSE)
    \/ Tick

SpecDown == InitCacheOnly /\ [][NextDown]_vars

\* ------------------------------------------------------- the one keyspace
\* cache.py:11 and rate_limiting.py:10 both connect to settings.redis_url:
\* cache entries and admission windows are keys of one Redis keyspace, a key
\* holding either a string (cstore) or a sorted set (zset).
RatePrefix == <<"r", "a", "t", "e", "_", "l", "i", "m", "i", "t", ":">>
RateIp7 == RatePrefix \o <<"i", "p", ":", "7">>
RateUser7 == RatePrefix \o <<"u", "s", "e", "r", ":", "7">>

\* the characters of a limiter key
Spelled(k) == IF k = "rate_limit:ip:7" THEN RateIp7 ELSE RateUser7

SharedKeys == {K, RateIp7, RateUser7}
SharedPatterns == {<<"*">>, <<"k", "*">>, RatePrefix \o <<"*">>}

\* a key of type zset as the string commands see it
ZsetValue == [utf8 |-> FALSE, text |-> "", doc |-> <<>>,
              obj |-> <<[k |-> "zset", v |-> <<>>]>>]
IsZset(e) == e # <<>> /\ e[1].data.obj # <<>> /\ e[1].data.obj[1].k = "zset"

\* the keyspace: every live key with its value and expiry
Keyspace(cs, zs, ex) ==
    [key \in DOMAIN cs |->
        IF cs[key] # <<>> THEN cs[key]
        ELSE IF \E k \in AllKeys : Spelled(k) = key /\ zs[k] # {}
        THEN LET k == CHOOSE j \in AllKeys : Spelled(j) = key
             IN  <<[data |-> ZsetValue, exp |-> ex[k]]>>
        ELSE <<>>]

\* the strings, the sorted sets and their expiries left in a keyspace
StringsOf(v) == [key \in DOMAIN v |-> IF IsZset(v[key]) THEN <<>> ELSE v[key]]
ZsetsOf(v, zs) == [k \in AllKeys |-> IF IsZset(v[Spelled(k)]) THEN zs[k] ELSE {}]
ExpiresOf(v, ex) == [k \in AllKeys |-> IF IsZset(v[Spelled(k)]) THEN ex[k] ELSE -1]

\* the key of the limiter holds a string: its sorted-set commands are refused
HoldsString(k) == cstore[Spelled(k)] # <<>>

\* await cache.set(key, value, ttl), lines 54-89, on the keyspace: SETEX
\* replaces whatever the key held
SharedSet(p, key, value, ttl, ok) ==
    /\ cpc[p] = "idle"
    /\ LET r == CacheSetResult(Keyspace(cstore, zset, expireAt), key, value, ttl,
                               TRUE, now, ok)
       IN  /\ cstore' = StringsOf(r.store)
           /\ zset' = ZsetsOf(r.store, zset)
           /\ expireAt' = ExpiresOf(r.store, expireAt)
           /\ cres' = [cres EXCEPT ![p] =
                         [NoCRes EXCEPT !.n = ncops + 1, !.op = "set", !.key = key,
                                        !.failed = r.failed, !.raised = r.raised,
                                        !.flag = r.flag, !.value = value,
                                        !.ttl = ttl]]
    /\ ncops' = ncops + 1
    /\ UNCHANGED <<now, quota, pc, req, out, lastCall, hist, ncalls, tracking>>
    /\ UNCHANGED <<cpc, creq, lastSet, send, ws>>

\* await cache.delete(key), lines 91-97, on the keyspace: DEL removes a key
\* of any type
SharedDelete(p, key, ok) ==
    /\ cpc[p] = "idle"
    /\ LET r == CacheDeleteResult(Keyspace(cstore, zset, expireAt), key, ok)
       IN  /\ cstore' = StringsOf(r.store)
           /\ zset' = ZsetsOf(r.store, zset)
           /\ expireAt' = ExpiresOf(r.store, expireAt)
           /\ cres' = [cres EXCEPT ![p] =
                         [NoCRes EXCEPT !.n = ncops + 1, !.op = "delete", !.key = key,
                                        !.failed = r.failed, !.raised = r.raised,
                                        !.flag = r.flag]]
    /\ ncops' = ncops + 1
    /\ UNCHANGED <<now, quota, pc, req, out, lastCall, hist, ncalls, tracking>>
    /\ UNCHANGED <<cpc, creq, lastSet, send, ws>>

\* clear_pattern(pattern), lines 109-110, on the keyspace: KEYS lists the
\* keys of every type
SharedClearEnumerate(p, pattern, ok) ==
    /\ cpc[p] = "idle"
    /\ ncops' = ncops + 1
    /\ UNCHANGED <<now, lvars, send, ws, cstore, lastSet>>
    /\ LET keys == RedisKeys(Keyspace(cstore, zset, expireAt), pattern)
       IN  IF ok /\ keys # {}
           THEN /\ cpc' = [cpc EXCEPT ![p] = "clear_delete"]
                /\ creq' = [creq EXCEPT ![p] =
                              [NoCReq EXCEPT !.op = "clear_pattern", !.pattern = pattern,
                                             !.keys = keys]]
                /\ cres' = cres
           ELSE /\ cres' = [cres EXCEPT ![p] =
                              [NoCRes EXCEPT !.n = ncops + 1, !.op = "clear_pattern",
                                             !.pattern = pattern, !.failed = ~ok,
                                             !.raised = IF ok THEN FALSE ELSE ClearExcept.raised,
                                             !.count = IF ok THEN 0 ELSE ClearExcept.count]]
                /\ UNCHANGED <<cpc, creq>>

\* clear_pattern, lines 111-112, on the keyspace
SharedClearDelete(p, ok) ==
    /\ cpc[p] = "clear_delete"
    /\ LET v == Keyspace(cstore, zset, expireAt)
           r == IF ok THEN RedisDelete(v, creq[p].keys) ELSE [store |-> v, count |-> 0]
       IN  /\ cstore' = StringsOf(r.store)
           /\ zset' = ZsetsOf(r.store, zset)
           /\ expireAt' = ExpiresOf(r.store, expireAt)
           /\ cres' = [cres EXCEPT ![p] =
                         [NoCRes EXCEPT !.n = ncops, !.op = "clear_pattern",
                                        !.pattern = creq[p].pattern, !.keys = creq[p].keys,
                                        !.failed = ~ok,
                                        !.raised = IF ok THEN FALSE ELSE ClearExcept.raised,
                                        !.count = IF ok THEN r.count ELSE ClearExcept.count]]
           /\ cpc' = [cpc EXCEPT ![p] = "idle"]
           /\ creq' = [creq EXCEPT ![p] = NoCReq]
    /\ UNCHANGED <<now, quota, pc, req, out, lastCall, hist, ncalls, tracking>>
    /\ UNCHANGED <<ncops, lastSet, send, ws>>

\* wrapper and is_allowed, lines 103-122 and 41-64, when the key holds a
\* string: EXEC runs the four commands, the three sorted-set commands are
\* refused (WRONGTYPE), EXPIRE is applied, execute() raises, the except branch
\* returns True and the body runs
WrapperWrongType(p, op, user_id, host) ==
    LET key == get_rate_limit_key(host, user_id)
        window == quota[op].window
    IN  /\ pc[p] = "idle"
        /\ HoldsString(key)
        /\ ncalls' = ncalls + 1
        /\ cstore' = [cstore EXCEPT ![Spelled(key)] =
                        <<[@[1] EXCEPT !.exp = now + window]>>]
        /\ lastCall' = [n |-> ncalls + 1, op |-> op, key |-> key,
                        user_id |-> user_id, result |-> FailOpen.result,
                        raised |-> FailOpen.raised, failed |-> TRUE, count |-> -1]
        /\ out' = [NoOut EXCEPT !.kind = "ran", !.op = op, !.consulted = TRUE,
                                !.allowed = FailOpen.result, !.failed = TRUE,
                                !.bodyRan = TRUE]
        /\ UNCHANGED <<now, quota, zset, expireAt, pc, req, hist, tracking>>
        /\ UNCHANGED <<cpc, creq, cres, lastSet, ncops, send, ws>>

\* one subject, limit 1 and window 2; the cache has the keyspace's keys
InitShared ==
    /\ cstore = [k \in SharedKeys |-> <<>>]
    /\ cpc = [p \in Procs |-> "idle"]
    /\ creq = [p \in Procs |-> NoCReq]
    /\ cres = [p \in Procs |-> NoCRes]
    /\ lastSet = [k \in CacheKeys |-> <<>>]
    /\ ncops = 0
    /\ now = 0
    /\ quota = [op \in Ops |-> [limit |-> 1, window |-> 2]]
    /\ zset = [k \in AllKeys |-> {}]
    /\ expireAt = [k \in AllKeys |-> -1]
    /\ pc = [p \in Procs |-> "idle"]
    /\ req = [p \in Procs |-> NoReq]
    /\ out = NoOut
    /\ lastCall = NoCall
    /\ hist = [k \in AllKeys |-> [t \in Times |-> <<0, 0>>]]
    /\ ncalls = 0
    /\ send = NoSend
    /\ ws = NoWs
    /\ tracking = FALSE

\* Worker w1 serves the requests of one subject while worker w2 uses the
\* cache with keys and patterns of its choosing.
NextShared ==
    \/ /\ ncalls + ncops < MaxSharedOps
       /\ \/ \E op \in Ops, h \in Hosts, ok \in BOOLEAN :
                /\ ~HoldsString(get_rate_limit_key(h, <<7>>))
                /\ Wrapper("w1", op, <<7>>, h, TRUE, ok)
          \/ \E op \in Ops, h \in Hosts : WrapperWrongType("w1", op, <<7>>, h)
          \/ \E key \in SharedKeys, ok \in BOOLEAN :
                SharedSet("w2", key, PyInt(1), <<1>>, ok)
          \/ \E key \in SharedKeys, ok \in BOOLEAN : SharedDelete("w2", key, ok)
          \/ \E pattern \in SharedPatterns, ok \in BOOLEAN :
                SharedClearEnumerate("w2", pattern, ok)
    \/ \E ok \in BOOLEAN : SharedClearDelete("w2", ok)
    \/ \E ok \in BOOLEAN :
          /\ ok => ~HoldsString(req["w1"].key)
          /\ RemainingEvict("w1", ok)
    \/ \E ok \in BOOLEAN :
          /\ ok => ~HoldsString(req["w1"].key)
          /\ RemainingCount("w1", ok)
    \/ Tick

SpecShared == InitShared /\ [][NextShared]_vars

\* --------------------------------------------------- send_unified_message
\* lines 29-35: a request arrives, the locals are initialised
SendStart(message) ==
    /\ send.pc = "idle"
    /\ send' = [NoSend EXCEPT !.pc = "slack", !.message = message]
    /\ UNCHANGED <<now, lvars, cvars, ws>>

\* lines 37-63: the Slack block, awaiting SlackService.send_message
SendSlack(success) ==
    /\ send.pc = "slack"
    /\ send' = [SendTo(send, "slack", send.message.slack_channel, success)
                  EXCEPT !.pc = "telegram"]
    /\ UNCHANGED <<now, lvars, cvars, ws>>

\* lines 65-98: the Telegram block, awaiting TelegramService.send_message,
\* and the UnifiedMessageResponse that is returned
SendTelegram(success) ==
    /\ send.pc = "telegram"
    /\ LET s == SendTo(send, "telegram", send.message.telegram_chat_id, success)
       IN  send' = [s EXCEPT !.pc = "idle",
                             !.response = [ready |-> TRUE,
                                           success |-> OverallSuccess(s.total_sent,
                                                                      s.total_failed),
                                           results |-> s.results,
                                           total_sent |-> s.total_sent,
                                           total_failed |-> s.total_failed]]
    /\ UNCHANGED <<now, lvars, cvars, ws>>

NextSend ==
    \/ \E message \in Messages : SendStart(message)
    \/ \E success \in BOOLEAN : SendSlack(success)
    \/ \E success \in BOOLEAN : SendTelegram(success)

SpecSend == InitCacheOnly /\ [][NextSend]_vars

\* ---------------------------------------------------- websocket_endpoint
\* lines 62-72: no token, or no user for the token: the socket is closed
WsReject(s) ==
    /\ ws.hpc[s] = "new"
    /\ ws' = [ws EXCEPT !.hpc[s] = "ended", !.live[s] = FALSE]
    /\ UNCHANGED <<now, lvars, cvars, send>>

\* lines 74-82: manager.connect registers the socket under str(user.id) and
\* the welcome message is sent to the socket registered for that user; up
\* says whether the client is still there when it is sent
WsConnect(s, user, up) ==
    /\ ws.hpc[s] = "new"
    /\ LET user_id == ToString(user)
           w == [Touched(ws, DictSet(ws.active, user_id, s))
                   EXCEPT !.hpc[s] = "open", !.owner[s] = user_id, !.live[s] = up]
       IN  ws' = send_personal_message(w, "connection", user_id)
    /\ UNCHANGED <<now, lvars, cvars, send>>

\* lines 87-95: a ping arrives on the socket and the pong is sent to the
\* socket registered for the user
WsPing(s) ==
    /\ ws.hpc[s] = "open" /\ ws.live[s]
    /\ ws' = send_personal_message(ws, "pong", ws.owner[s])
    /\ UNCHANGED <<now, lvars, cvars, send>>

\* lines 87-88 and 99-101: a text that json.loads rejects ends the handler
\* through the Exception branch; the server then closes the socket
WsBadMessage(s) ==
    /\ ws.hpc[s] = "open" /\ ws.live[s]
    /\ ws' = [Touched(ws, disconnect(ws.active, ws.owner[s]))
                EXCEPT !.hpc[s] = "ended", !.live[s] = FALSE]
    /\ UNCHANGED <<now, lvars, cvars, send>>

\* the client goes away
WsDrop(s) ==
    /\ ws.hpc[s] = "open" /\ ws.live[s]
    /\ ws' = [ws EXCEPT !.live[s] = FALSE]
    /\ UNCHANGED <<now, lvars, cvars, send>>

\* lines 87 and 97-98: receive_text raises WebSocketDisconnect
WsDisconnect(s) ==
    /\ ws.hpc[s] = "open" /\ ~ws.live[s]
    /\ ws' = [Touched(ws, disconnect(ws.active, ws.owner[s]))
                EXCEPT !.hpc[s] = "ended"]
    /\ UNCHANGED <<now, lvars, cvars, send>>

\* send_message_update and send_sheet_update, lines 108-124
SendUpdate(user) ==
    /\ ws' = send_personal_message(ws, "update", ToString(user))
    /\ ws' # ws
    /\ UNCHANGED <<now, lvars, cvars, send>>

\* broadcast, line 40: the iterator over active_connections.items() is made
BroadcastStart ==
    /\ ws.bc.pc # "iter"
    /\ ws' = [ws EXCEPT !.bc = [pc |-> "iter", pos |-> 0,
                                used |-> Cardinality(LiveIndexes(ws.active)),
                                len |-> Cardinality(LiveIndexes(ws.active)),
                                start |-> Registered(ws.active),
                                attempted |-> {}, failed |-> {},
                                quiet |-> TRUE]]
    /\ UNCHANGED <<now, lvars, cvars, send>>

\* what the iterator does when asked for the next item: RuntimeError when the
\* dict changed size or still has an entry after `used` items were handed
\* out, StopIteration at the end, otherwise the position of the item
IterNext(a, bc) ==
    IF Cardinality(LiveIndexes(a)) # bc.used THEN "raised"
    ELSE IF NextEntry(a, bc.pos) = 0 THEN "done"
    ELSE IF bc.len = 0 THEN "raised"
    ELSE "item"

\* broadcast, lines 40-45: one turn of the loop: the iterator is asked for
\* the next item, the message is sent on its socket, and a failed send
\* unregisters its user
BroadcastNext ==
    /\ ws.bc.pc = "iter"
    /\ LET a == ws.active
           bc == ws.bc
           step == IterNext(a, bc)
           i == NextEntry(a, bc.pos)
       IN  IF step # "item"
           THEN ws' = [ws EXCEPT !.bc.pc = step]
           ELSE LET user_id == a[i][1]
                    connection == a[i][2]
                    ok == ws.live[connection]
                IN  ws' = [ws EXCEPT
                             !.bc.pos = i,
                             !.bc.len = @ - 1,
                             !.bc.attempted = @ \cup {connection},
                             !.bc.failed = IF ok THEN @ ELSE @ \cup {connection},
                             !.last = [kind |-> "system_update", to |-> connection,
                                       failed |-> ~ok],
                             !.active = IF ok THEN @ ELSE disconnect(a, user_id)]
    /\ UNCHANGED <<now, lvars, cvars, send>>

NextWs ==
    \/ \E s \in Sockets : WsReject(s)
    \/ \E s \in Sockets, user \in Users, up \in BOOLEAN : WsConnect(s, user, up)
    \/ \E s \in Sockets : WsPing(s)
    \/ \E s \in Sockets : WsBadMessage(s)
    \/ \E s \in Sockets : WsDrop(s)
    \/ \E s \in Sockets : WsDisconnect(s)
    \/ \E user \in Users : SendUpdate(user)
    \/ BroadcastStart
    \/ BroadcastNext

SpecWs == InitCacheOnly /\ [][NextWs]_vars

\* ----------------------------------------------------------------- history
RECURSIVE SumOver(_, _)
SumOver(f, S) ==
    IF S = {} THEN 0
    ELSE LET x == CHOOSE y \in S : TRUE IN f[x] + SumOver(f, S \ {x})

\* the seconds of the window of a call made now: (now - window, now]
WindowSecs(window) == {t \in Times : t > now - window /\ t <= now}

AllowedAt(k) == [t \in Times |-> hist[k][t][1]]
DeniedAt(k) == [t \in Times |-> hist[k][t][2]]
CallsAt(k) == [t \in Times |-> hist[k][t][1] + hist[k][t][2]]

\* the second of the first recorded call on k, -1 when there is none
FirstEvent(k) ==
    LET S == {t \in Times : CallsAt(k)[t] > 0}
    IN  IF S = {} THEN -1 ELSE CHOOSE t \in S : \A u \in S : t <= u

\* this step is an is_allowed call whose pipeline reached the store
CallStep == lastCall'.n # lastCall.n /\ ~lastCall'.failed

\* ------------------------------------------------------------------ claims

\* C1: once L calls to is_allowed on a key have occurred within a W-second
\* span, the next is_allowed call on that key within the same span returns
\* false (calls may fall in the same clock second, the store is available).
C1_WindowQuota ==
    [][CallStep =>
         LET k == lastCall'.key
             q == quota[lastCall'.op]
         IN  SumOver(CallsAt(k), WindowSecs(q.window)) >= q.limit
                => lastCall'.result = FALSE]_vars

\* C2 (as claimed): for a key whose first event was at t0, an is_allowed call
\* at t0 + W + 1 returns true whenever fewer than L of the calls still inside
\* its window were allowed, however many calls in between were denied.
C2_AgingOutDenialsFree ==
    [][CallStep =>
         LET k == lastCall'.key
             q == quota[lastCall'.op]
         IN  /\ FirstEvent(k) # -1
             /\ FirstEvent(k) = now - q.window - 1
             /\ SumOver(AllowedAt(k), WindowSecs(q.window)) < q.limit
             => lastCall'.result = TRUE]_vars

\* C2 (amended): for a key whose first event was at t0, an is_allowed call at
\* t0 + W + 1 returns true if fewer than L distinct clock seconds of
\* (t0 + 1, t0 + W + 1] hold an earlier call on the key, allowed or denied.
C2_AgingOut ==
    [][CallStep =>
         LET k == lastCall'.key
             q == quota[lastCall'.op]
         IN  /\ FirstEvent(k) # -1
             /\ FirstEvent(k) = now - q.window - 1
             /\ Cardinality({t \in WindowSecs(q.window) : CallsAt(k)[t] > 0}) < q.limit
             => lastCall'.result = TRUE]_vars

\* C2 witness: the call at t0 + W + 1 was just allowed, the only call of its
\* second, after L or more denied calls on the key.
C2_Witness ==
    /\ lastCall.n > 0 /\ ~lastCall.failed /\ lastCall.result
    /\ LET k == lastCall.key
           q == quota[lastCall.op]
       IN  /\ hist[k][now] = <<1, 0>>
           /\ FirstEvent(k) = now - q.window - 1
           /\ SumOver(DeniedAt(k), Times) >= q.limit

\* C3: every is_allowed call that completes without a store error adds a
\* member scored at the current second, allowed or denied, and returns
\* (members left after eviction, before its own insertion) < limit.
C3_EventRecorded ==
    [][CallStep =>
         LET k == lastCall'.key
             q == quota[lastCall'.op]
             left == {e \in zset[k] : e[2] > now - q.window}
         IN  /\ <<ToString(now), now>> \in zset'[k]
             /\ lastCall'.result = (Cardinality(left) < q.limit)
             /\ lastCall'.count = Cardinality(left)]_vars

\* C3 witness: a call was just denied and its event is in the set.
C3_Witness ==
    /\ lastCall.n > 0 /\ ~lastCall.failed /\ lastCall.result = FALSE
    /\ \E p \in Procs : pc[p] = "rem_evict" /\ req[p].direct /\ req[p].key = lastCall.key
    /\ <<ToString(now), now>> \in zset[lastCall.key]
    /\ ZCard(zset[lastCall.key]) > lastCall.count

C5_FailOpen ==
    lastCall.n > 0 /\ lastCall.failed => lastCall.result = TRUE /\ ~lastCall.raised

\* C5 witness: the store failed on a call that a reachable store would have
\* denied: the key's window already holds limit members.
C5_Witness ==
    /\ lastCall.n > 0 /\ lastCall.failed /\ lastCall.result
    /\ LET q == quota[lastCall.op]
       IN  Cardinality({e \in zset[lastCall.key] : e[2] > now - q.window}) >= q.limit

\* C6: if a store operation of get_remaining_requests fails, the call returns
\* exactly the configured limit, whatever the number of recorded events.
C6_RemainingOnError ==
    out.kind = "rejected" /\ out.remFailed
        => out.detail.remaining = quota[out.op].limit

\* C6 witness: the probe failed although the window was full at the denial.
C6_Witness ==
    /\ out.kind = "rejected" /\ out.remFailed
    /\ out.count >= quota[out.op].limit
    /\ out.detail.remaining > 0

\* C7: a request whose is_allowed met a store failure is never rejected and
\* its body is run; a rejection comes only from an is_allowed that returned
\* false on a real count >= limit.
C7_StoreFailureInvisible ==
    /\ out.consulted /\ out.failed => out.kind = "ran" /\ out.bodyRan
    /\ out.kind = "rejected" => ~out.failed /\ out.count >= quota[out.op].limit

\* C7 witness: the body ran on a store failure while the key's window was full.
C7_Witness ==
    /\ out.kind = "ran" /\ out.consulted /\ out.failed /\ out.bodyRan
    /\ lastCall.n = ncalls /\ lastCall.failed
    /\ ZCard(zset[lastCall.key]) >= quota[out.op].limit
    /\ expireAt[lastCall.key] > now

\* C8: when the request is found, the body runs iff is_allowed returned true;
\* on false the wrapper raises, before the body, a rejection carrying limit,
\* window, the remaining of get_remaining_requests and retry_after = window.
C8_AdmissionGate ==
    out.consulted =>
        /\ out.kind \in {"ran", "rejected"}
        /\ out.bodyRan <=> out.allowed
        /\ out.kind = "ran" <=> out.allowed
        /\ out.kind = "rejected" =>
              LET q == quota[out.op]
              IN  /\ DOMAIN out.detail = {"limit", "window", "remaining", "retry_after"}
                  /\ out.detail.limit = q.limit
                  /\ out.detail.window = q.window
                  /\ out.detail.retry_after = q.window
                  /\ out.detail.remaining \in 0..q.limit
                  /\ out.remFailed => out.detail.remaining = q.limit

\* C8 witness: a request that followed another one was denied and rejected
\* with nothing remaining, and its body did not run.
C8_Witness ==
    /\ out.kind = "rejected" /\ ~out.allowed /\ ~out.bodyRan /\ ~out.remFailed
    /\ out.detail.retry_after = quota[out.op].window
    /\ out.detail.remaining = 0
    /\ lastCall.n > 1

\* C9: for every subject id s and origin o, the key resolved for the subject
\* differs from the key resolved for the origin, and an event recorded for
\* the subject never changes the origin's set.
C9_ScopeIsolation ==
    [][CallStep /\ lastCall'.user_id # None =>
         \A h \in Hosts :
            /\ lastCall'.key # get_rate_limit_key(h, None)
            /\ zset'[get_rate_limit_key(h, None)] = zset[get_rate_limit_key(h, None)]]_vars

\* C10: whenever a subject id is present on the request, whatever its value
\* (0 included), the resolved key is the subject-scoped key of that id.
C10_KeyResolution ==
    lastCall.n > 0 /\ lastCall.user_id # None
        => lastCall.key = "rate_limit:user:" \o ToString(lastCall.user_id[1])

\* the members of key k that a check against op's own window counts
CountedFor(z, k, op) == Cardinality({e \in z[k] : e[2] > now - quota[op].window})

\* C11: admission is decided per (subject, action) pair: the event that a
\* caller's request to one protected operation records is not counted when
\* the same caller's request to a different operation is checked, so a call
\* to one operation leaves the count every other operation will see unchanged.
C11_PerOperation ==
    [][CallStep =>
         \A op \in AdminOps \ {lastCall'.op} :
            CountedFor(zset', lastCall'.key, op) = CountedFor(zset, lastCall'.key, op)]_vars

\* ------------------------------------------------------------ cache claims
\* worker p completes a cache call of kind op in this step
CacheDone(p, op) == cres'[p] # cres[p] /\ cres'[p].op = op

\* the values of the JSON data model: None, int, str, lists of such and
\* dicts of such under str keys
RECURSIVE JsonNative(_)
JsonNative(x) ==
    CASE x.k \in {"NoneType", "int", "str"} -> TRUE
      [] x.k = "list" -> \A i \in 1..Len(x.v) : JsonNative(x.v[i])
      [] x.k = "dict" -> \A i \in 1..Len(x.v) :
                            x.v[i][1].k = "str" /\ JsonNative(x.v[i][2])
      [] OTHER -> FALSE

\* the second at which the entry written by the set h stops living
ElapsesAt(h) == h.t + (IF h.ttl = None THEN DefaultTTL ELSE h.ttl[1])

\* a get(k) with the store reachable that follows the successful set(k, v, ttl)
\* recorded in lastSet[k], before the TTL elapses, no write or delete between
ReadsBack(p) ==
    /\ CacheDone(p, "get") /\ ~cres'[p].failed /\ cres'[p].deserialize
    /\ lastSet[cres'[p].key] # <<>>
    /\ lastSet[cres'[p].key][1].ser
    /\ now < ElapsesAt(lastSet[cres'[p].key][1])

\* C12 (as claimed): for every value v that json.dumps encodes structurally,
\* a successful set(k, v, ttl) followed by get(k) before the TTL elapses, with
\* no write or delete of k between, returns a value equal to v.
C12_RoundTripEncodable ==
    [][\A p \in Procs :
          ReadsBack(p) /\ HasJsonForm(lastSet[cres'[p].key][1].v)
             => cres'[p].value = lastSet[cres'[p].key][1].v]_vars

\* C12 (amended): the same for every v of the JSON data model (None, int, str,
\* lists of such, dicts of such under str keys); a tuple is returned as a
\* list and a dict key that is not a str as its string.
C12_RoundTrip ==
    [][\A p \in Procs :
          ReadsBack(p) /\ JsonNative(lastSet[cres'[p].key][1].v)
             => cres'[p].value = lastSet[cres'[p].key][1].v]_vars

\* C12 witness: {"a": 1} was set and the get that followed returned {"a": 1}.
C12_Witness ==
    /\ cres["w1"].op = "get" /\ cres["w1"].n = ncops /\ ~cres["w1"].failed
    /\ cres["w1"].deserialize
    /\ lastSet[K] # <<>> /\ lastSet[K][1].v = DictA /\ lastSet[K][1].ser
    /\ now < ElapsesAt(lastSet[K][1])
    /\ cres["w1"].value = DictA

\* C13: after set(k, v, ttl) at time t with no later set of k, every get(k)
\* at a time >= t + ttl returns absent and every exists(k) returns false
\* (ttl a positive number of seconds; the store reachable or not).
C13_TtlExpiry ==
    [][\A p \in Procs :
          LET k == cres'[p].key
          IN  /\ CacheDone(p, "get") \/ CacheDone(p, "exists")
              /\ lastSet[k] # <<>>
              /\ Truthy(lastSet[k][1].ttl)
              /\ now >= lastSet[k][1].t + lastSet[k][1].ttl[1]
              => /\ cres'[p].op = "get" => cres'[p].value = PyNone
                 /\ cres'[p].op = "exists" => cres'[p].flag = FALSE]_vars

\* C13 witness: a get reached the store one second or more after the TTL of
\* the last set elapsed and returned absent.
C13_Witness ==
    /\ cres["w1"].op = "get" /\ cres["w1"].n = ncops /\ ~cres["w1"].failed
    /\ lastSet[K] # <<>> /\ Truthy(lastSet[K][1].ttl)
    /\ lastSet[K][1].v = DictA
    /\ now >= lastSet[K][1].t + lastSet[K][1].ttl[1]
    /\ cres["w1"].value = PyNone

\* C14: a value that json.dumps has no structured form for, such as a raw
\* binary blob, is stored by set(k, v) in the pickle form, and the get(k)
\* that follows returns a value equal to v.
C14_FallbackRoundTrip ==
    [][\A p \in Procs :
          ReadsBack(p) /\ ~HasJsonForm(lastSet[cres'[p].key][1].v)
             => /\ cstore[cres'[p].key] # <<>>
                /\ cstore[cres'[p].key][1].data = PickleBytes(lastSet[cres'[p].key][1].v)
                /\ cres'[p].value = lastSet[cres'[p].key][1].v]_vars

\* C15: every cache entry in the store has a positive expiry: each successful
\* set writes the value together with a TTL, the instance default of 3600 s
\* when the ttl argument is omitted or 0; no entry is without a TTL.
C15_EntriesExpire ==
    /\ \A k \in CacheKeys :
          cstore[k] # <<>> =>
             /\ cstore[k][1].exp # -1 /\ cstore[k][1].exp > now
             /\ lastSet[k] # <<>>
             /\ cstore[k][1].exp =
                   lastSet[k][1].t + (IF lastSet[k][1].ttl \in {None, <<0>>}
                                      THEN DefaultTTL ELSE lastSet[k][1].ttl[1])
    /\ \A p \in Procs :
          /\ cres[p].op = "set" /\ cres[p].n = ncops /\ ~cres[p].failed
          /\ cres[p].value = DictA /\ cres[p].ttl \in {None, <<0>>}
          => cres[p].flag /\ lastSet[cres[p].key] # <<>>
                          /\ lastSet[cres[p].key][1].ttl = cres[p].ttl

\* C15 witness: set(k, v, 0) succeeded and its entry lives for 3600 s.
C15_Witness ==
    /\ cres["w1"].op = "set" /\ cres["w1"].n = ncops /\ cres["w1"].flag
    /\ cres["w1"].ttl = <<0>>
    /\ cstore[K] # <<>> /\ lastSet[K] # <<>>
    /\ cstore[K][1].exp = lastSet[K][1].t + DefaultTTL

\* C16: cache operations never propagate store or encoding errors: when the
\* store is unavailable get returns absent, set false, delete false, exists
\* false and clear_pattern 0, a set whose value cannot be encoded returns
\* false, and none of them raises to the caller.
C16_ErrorsSwallowed ==
    \A p \in Procs :
       /\ ~cres[p].raised
       /\ cres[p].failed =>
             /\ cres[p].op = "get" => cres[p].value = PyNone
             /\ cres[p].op \in {"set", "delete", "exists"} => cres[p].flag = FALSE
             /\ cres[p].op = "clear_pattern" => cres[p].count = 0
       /\ cres[p].op = "set" /\ ~Picklable(cres[p].value) => cres[p].flag = FALSE

\* C16 witness: the store was unreachable for a delete of a live key, which
\* returned false and left the key in place.
C16_Witness ==
    /\ cres["w1"].op = "delete" /\ cres["w1"].n = ncops /\ cres["w1"].failed
    /\ cres["w1"].flag = FALSE /\ ~cres["w1"].raised
    /\ cstore[K] # <<>>

\* C17: a clear_pattern(p) during which no other caller wrote (the store
\* reachable) removes exactly the live keys that match p, returns the number
\* of keys it removed and leaves every other key with its value and TTL.
C17_PatternClear ==
    [][\A p \in Procs :
          CacheDone(p, "clear_pattern") /\ ~cres'[p].failed /\ cres'[p].quiet
          => /\ \A k \in CacheKeys :
                   IF GlobMatch(cres'[p].pattern, k)
                   THEN cstore'[k] = <<>> ELSE cstore'[k] = cstore[k]
             /\ cres'[p].count =
                   Cardinality({k \in CacheKeys : /\ GlobMatch(cres'[p].pattern, k)
                                                  /\ cstore[k] # <<>>})]_vars

\* C17 witness: with ns:1, ns:2 and other:1 live, clear_pattern("ns:*")
\* returned 2 and other:1 is still there.
C17_Witness ==
    /\ cres["w1"].op = "clear_pattern" /\ cres["w1"].n = ncops
    /\ ~cres["w1"].failed /\ cres["w1"].quiet
    /\ cres["w1"].pattern = <<"n", "s", ":", "*">>
    /\ cres["w1"].keys = {Ns1, Ns2}
    /\ cres["w1"].count = 2
    /\ cstore[Ns1] = <<>> /\ cstore[Ns2] = <<>> /\ cstore[Other1] # <<>>

\* C18: clear_pattern is not atomic across its enumerate and delete phases;
\* what it does guarantee is that every key it enumerated is absent when it
\* returns (the witness is the interleaving in which a key that matches is
\* created between the two phases and outlives the call).
C18_EnumeratedGone ==
    [][\A p \in Procs :
          CacheDone(p, "clear_pattern") /\ ~cres'[p].failed
          => \A k \in cres'[p].keys : cstore'[k] = <<>>]_vars

\* C18 witness: clear_pattern has just returned (no call started since) and
\* a live key matches its pattern: the key was not enumerated, a concurrent
\* set created it before the bulk delete.
C18_Witness ==
    /\ cres["w1"].op = "clear_pattern" /\ cres["w1"].n = ncops
    /\ ~cres["w1"].failed /\ ~cres["w1"].quiet
    /\ cres["w1"].keys # {} /\ cres["w1"].count = Cardinality(cres["w1"].keys)
    /\ \E k \in CacheKeys :
          /\ GlobMatch(cres["w1"].pattern, k)
          /\ k \notin cres["w1"].keys
          /\ cstore[k] # <<>>

\* C19: get_or_set and the cache_result wrapper: when get(key) finds a live
\* non-null entry the cached value is returned and the producer is not
\* invoked; on a miss the producer is invoked exactly once by that call, its
\* result is written with the given (or default) TTL when the store can be
\* reached, and the same result is returned.
C19_GetOrSet ==
    [][\A p \in Procs :
          /\ cpc[p] = "idle" /\ cpc'[p] = "gos_produce"
             => \/ creq'[p].failed
                \/ cstore[creq'[p].key] = <<>>
                \/ lastSet[creq'[p].key][1].v = PyNone
          /\ CacheDone(p, "get_or_set") /\ cres'[p].hit
             => /\ cpc[p] = "idle" /\ cres'[p].produced = 0
                /\ cstore[cres'[p].key] # <<>>
                /\ cres'[p].value = lastSet[cres'[p].key][1].v
                /\ cstore' = cstore
          /\ CacheDone(p, "get_or_set") /\ ~cres'[p].hit
             => /\ cres'[p].produced = 1
                /\ cres'[p].value = creq[p].value
                /\ ~cres'[p].failed
                   => /\ cres'[p].flag
                      /\ cstore'[cres'[p].key] =
                            <<[data |-> JsonBytes(JsonDoc(creq[p].value)),
                               exp |-> now + (IF creq[p].ttl = None THEN DefaultTTL
                                              ELSE creq[p].ttl[1])]>>]_vars

\* C19 witness: one call missed, produced 1 and stored it; the next call
\* found the entry and returned 1 without a producer call.
C19_Witness ==
    /\ cres["w1"].op = "get_or_set" /\ ~cres["w1"].hit /\ cres["w1"].produced = 1
    /\ cres["w1"].flag /\ cres["w1"].value = PyInt(1)
    /\ cres["w2"].op = "get_or_set" /\ cres["w2"].hit /\ cres["w2"].produced = 0
    /\ cres["w2"].value = PyInt(1) /\ cres["w2"].n = ncops

\* C20: no single-flight.  Whatever the interleaving, each caller that missed
\* returns its own producer result and the entry in the store after its set
\* is the value that set wrote; the witness is the interleaving in which two
\* callers miss the same key, both invoke the producer and both write.
C20_LastSetWins ==
    [][\A p \in Procs :
          CacheDone(p, "get_or_set") /\ ~cres'[p].hit
          => /\ cres'[p].value = creq[p].value
             /\ cres'[p].flag =>
                   CacheGetResult(cstore', cres'[p].key, TRUE, TRUE).value = creq[p].value]_vars

\* C20 witness: both workers missed k, produced different values and wrote
\* them with the default TTL; the entry is the one of the set that came last
\* and each worker returned its own value.
C20_Witness ==
    /\ \A p \in Procs :
          /\ cres[p].op = "get_or_set" /\ cres[p].key = K /\ ~cres[p].hit
          /\ cres[p].produced = 1 /\ cres[p].flag /\ cres[p].ttl = None
    /\ cres["w1"].value = PyInt(1) /\ cres["w2"].value = PyInt(2)
    /\ cres["w1"].n = ncops /\ cres["w1"].n = 2
    /\ cstore[K] # <<>> /\ cstore[K][1].data = JsonBytes(JsonDoc(PyInt(1)))
    /\ lastSet[K][1].v = PyInt(1)

\* C21: a miss and a stored null are indistinguishable: get returns the same
\* absent result for a missing key and for a key whose stored value is null,
\* so a get_or_set that finds a live entry holding null does not return it
\* but invokes the producer again.
C21_NullIsMiss ==
    [][/\ \A k \in CacheKeys :
            cstore[k] # <<>> /\ lastSet[k][1].v = PyNone
            => CacheGetResult(cstore, k, TRUE, TRUE)
                  = CacheGetResult([cstore EXCEPT ![k] = <<>>], k, TRUE, TRUE)
       /\ \A p \in Procs :
            CacheDone(p, "get_or_set") /\ cres'[p].hit
            => /\ cstore[cres'[p].key] # <<>>
               /\ lastSet[cres'[p].key][1].v # PyNone
               /\ cres'[p].value # PyNone]_vars

\* C21 witness: the producer returned None, it was stored with the default
\* TTL, and the next get_or_set, started after that, is calling the producer
\* while the entry is live.
C21_Witness ==
    /\ cres["w1"].op = "get_or_set" /\ ~cres["w1"].hit /\ cres["w1"].flag
    /\ cres["w1"].value = PyNone /\ cres["w1"].n = 1
    /\ ncops = 2 /\ cpc["w2"] = "gos_produce" /\ ~creq["w2"].failed
    /\ cstore[K] # <<>> /\ lastSet[K][1].v = PyNone

\* C22: while the store is unavailable (the get and the set of the call both
\* fail) get_or_set still invokes the producer, once, and returns the
\* producer's value without raising; nothing is stored.
C22_StoreDownStillServes ==
    [][\A p \in Procs :
          /\ cpc[p] = "idle" /\ cpc'[p] # "idle" => cpc'[p] = "gos_produce" /\ creq'[p].failed
          /\ CacheDone(p, "get_or_set")
             => /\ ~cres'[p].raised
                /\ creq[p].failed /\ cres'[p].failed
                /\ ~cres'[p].hit /\ cres'[p].produced = 1
                /\ cres'[p].value = creq[p].value
                /\ ~cres'[p].flag
                /\ cstore' = cstore]_vars

\* C22 witness: with the store down for its get and its set, a call
\* returned the producer's 1 and the key is absent.
C22_Witness ==
    /\ cres["w1"].op = "get_or_set" /\ cres["w1"].n = ncops
    /\ cres["w1"].failed /\ ~cres["w1"].raised /\ ~cres["w1"].hit
    /\ cres["w1"].produced = 1 /\ cres["w1"].value = PyInt(1)
    /\ cstore[K] = <<>> /\ lastSet[K] = <<>>

C24_ProbeAtomic ==
    [][\A p \in Procs :
          pc[p] = "rem_count" /\ now' = now
          => /\ zset'[req[p].key] = zset[req[p].key]
             /\ expireAt'[req[p].key] = expireAt[req[p].key]]_vars

\* C24 (amended): eviction and count of get_remaining_requests are two store
\* commands; the count is of the set as it is when the count runs, whatever
\* other callers did to the key after the eviction.
C24_CountsAtCountTime ==
    [][\A p \in Procs :
          pc[p] = "rem_count" /\ pc'[p] = "idle" /\ ~out'.remFailed
          => out'.detail.remaining
                = Max(0, quota[req[p].op].limit - Cardinality(zset[req[p].key]))]_vars

\* C24 witness: a request was denied at count 1 = limit, its key then
\* expired, a later call of the other worker was allowed at count 0, and the
\* rejection of the denied request counted that call's event: remaining 0.
C24_Witness ==
    /\ out.kind = "rejected" /\ ~out.remFailed /\ ~out.direct
    /\ out.count = 1 /\ out.detail.limit = 1 /\ out.detail.remaining = 0
    /\ lastCall.n = 3 /\ lastCall.result /\ lastCall.count = 0
    /\ zset[lastCall.key] = {<<ToString(now), now>>}
\* C25: the remaining field of every rejection, which is the result of the
\* get_remaining_requests call made for it, lies in 0..limit, whether the
\* probe reached the store or not and however many events are recorded.
C25_RemainingInRange ==
    out.kind = "rejected"
    => /\ out.detail.remaining \in 0..out.detail.limit
       /\ out.detail.limit = quota[out.op].limit

\* C25 witness: a rejection reports remaining 0 while the key of the denied
\* request holds more events than the limit.
C25_Witness ==
    /\ out.kind = "rejected" /\ ~out.remFailed /\ out.direct
    /\ out.detail.remaining = 0
    /\ lastCall.n = ncalls /\ ~lastCall.result /\ lastCall.count = out.count
    /\ Cardinality(zset[lastCall.key]) > out.detail.limit
\* the services of a message, each once
RequestedSet(message) == {message.services[i] : i \in 1..Len(message.services)}

\* the results recorded for one service
ResultsFor(results, service) ==
    {i \in 1..Len(results) : results[i].service = service}

InWindow(s, t, window) == {e \in s : t - window < e[2] /\ e[2] <= t}

\* C27: is_allowed counts exactly the members scored in (now - window, now],
\* and none scored now - window or older is left in the set; the eviction of
\* get_remaining_requests leaves exactly those members, and its count, taken
\* in the same second, is of exactly those members.
C27_WindowMembership ==
    [][/\ CallStep =>
            LET k == lastCall'.key
                w == quota[lastCall'.op].window
            IN  /\ lastCall'.count = Cardinality(InWindow(zset[k], now, w))
                /\ zset'[k] = InWindow(zset[k], now, w) \cup {<<ToString(now), now>>}
                /\ \A e \in zset'[k] : e[2] # now - w
       /\ \A p \in Procs :
            LET k == req[p].key
                w == quota[req[p].op].window
            IN  /\ pc[p] = "rem_evict" /\ pc'[p] = "rem_count"
                   => zset'[k] = InWindow(zset[k], now, w)
                /\ pc[p] = "rem_count" /\ pc'[p] = "idle" /\ ~out'.remFailed
                      /\ req[p].current_time = now
                   => /\ zset[k] = InWindow(zset[k], now, w)
                      /\ out'.detail.remaining
                           = Max(0, quota[req[p].op].limit
                                      - Cardinality(InWindow(zset[k], now, w)))]_vars

\* C27 witness: window 2, calls at seconds 0, 1 and 2; the call at second 2
\* counted 1: the event of second 0, exactly one window old, was evicted.
C27_Witness ==
    /\ lastCall.n = 3 /\ ~lastCall.failed /\ lastCall.count = 1
    /\ quota[lastCall.op].window = 2 /\ now = 2
    /\ CallsAt(lastCall.key)[0] = 1 /\ CallsAt(lastCall.key)[1] = 1
    /\ zset[lastCall.key] = {<<"1", 1>>, <<"2", 2>>}
LastEvent(k) ==
    LET S == {t \in Times : CallsAt(k)[t] > 0}
    IN  IF S = {} THEN -1 ELSE CHOOSE t \in S : \A u \in S : t >= u

\* C29: a key whose last event was at second t expires at t + window: before
\* that second the key exists, holds the event and is due at t + window,
\* however many earlier events it had; from that second on, with no further
\* event, the key is gone from the store.
C29_IdleExpiry ==
    \A k \in AllKeys, op \in Ops :
       LET t == LastEvent(k)
           w == quota[op].window
       IN  IF t # -1 /\ now < t + w
           THEN <<ToString(t), t>> \in zset[k] /\ expireAt[k] = t + w
           ELSE zset[k] = {} /\ expireAt[k] = -1

\* C29 witness: window 2, events at seconds 0 and 1: the second event moved
\* the expiry from 2 to 3, and at second 3 the idle key is gone.
C29_Witness ==
    /\ now = 3 /\ lastCall.n = 2
    /\ quota[lastCall.op].window = 2
    /\ CallsAt(lastCall.key)[0] = 1 /\ LastEvent(lastCall.key) = 1
    /\ zset[lastCall.key] = {} /\ expireAt[lastCall.key] = -1
\* this step is a command of worker p's get_remaining_requests call
ProbeStep(p) == pc[p] \in {"rem_evict", "rem_count"} /\ pc'[p] # pc[p]

\* C30: a command of get_remaining_requests adds no member, removes only
\* members scored now - window or older, leaves the key's expiry, every other
\* key and the record of events as they are, and leaves what an is_allowed
\* call made in this second would count, return and store as it was; the
\* value it returns is max(0, limit - count).
C30_ProbeReadOnly ==
    [][\A p \in Procs :
          ProbeStep(p) =>
             LET k == req[p].key
                 limit == quota[req[p].op].limit
                 w == quota[req[p].op].window
             IN  /\ zset'[k] \subseteq zset[k]
                 /\ \A e \in zset[k] \ zset'[k] : e[2] <= now - w
                 /\ expireAt' = expireAt
                 /\ \A j \in AllKeys \ {k} : zset'[j] = zset[j]
                 /\ lastCall' = lastCall /\ hist' = hist
                 /\ is_allowed(zset'[k], expireAt'[k], now, limit, w, TRUE)
                       = is_allowed(zset[k], expireAt[k], now, limit, w, TRUE)
                 /\ pc'[p] = "idle" /\ ~out'.remFailed
                    => out'.detail.remaining = Max(0, limit - ZCard(zset[k]))]_vars

\* C30 witness: window 2, calls at seconds 0 and 1, the second one denied;
\* its probe ran its eviction at second 2 and removed the event of second 0,
\* the expiry set by the call at second 1 still standing.
C30_Witness ==
    /\ pc["w1"] = "rem_count" /\ req["w1"].current_time = 2 /\ now = 2
    /\ lastCall.n = 2 /\ ~lastCall.result /\ lastCall.key = req["w1"].key
    /\ CallsAt(lastCall.key)[0] = 1 /\ CallsAt(lastCall.key)[1] = 1
    /\ zset[lastCall.key] = {<<"1", 1>>}
    /\ expireAt[lastCall.key] = 3
\* this step is a command of a cache call / of a wrapper call
CacheStep == cres' # cres \/ cpc' # cpc
LimiterStep == ncalls' # ncalls \/ pc' # pc

\* the keys a finished cache call was aimed at: its key, or every key its
\* pattern matches
AimedAt(r) ==
    IF r.op = "clear_pattern" THEN {key \in SharedKeys : GlobMatch(r.pattern, key)}
    ELSE {r.key}

\* C31 (as claimed): whatever keys and patterns the cache is called with, a
\* cache command leaves every admission window (members and expiry) as it
\* was, and a limiter command leaves every cache entry as it was.
C31_Independent ==
    [][/\ CacheStep => zset' = zset /\ expireAt' = expireAt
       /\ LimiterStep => cstore' = cstore]_vars

\* C31 (amended): a cache call changes an admission window only when its key
\* is, or its pattern matches, the key of that window; a wrapper call changes
\* a cache entry only when the entry is stored under the key of the call.
C31_IndependentApart ==
    [][/\ \A p \in Procs, k \in AllKeys :
            cres'[p] # cres[p] /\ Spelled(k) \notin AimedAt(cres'[p])
            => zset'[k] = zset[k] /\ expireAt'[k] = expireAt[k]
       /\ cpc' # cpc /\ cres' = cres => zset' = zset /\ expireAt' = expireAt
       /\ \A key \in SharedKeys :
            /\ ncalls' # ncalls /\ key # Spelled(lastCall'.key)
               => cstore'[key] = cstore[key]
            /\ \A p \in Procs : pc'[p] # pc[p] /\ pc[p] # "idle"
               => cstore'[key] = cstore[key]]_vars

\* C31 witness: the subject's window holds the event of an admitted request
\* while a clear_pattern("k*") has removed the cache entry k and nothing else.
C31_Witness ==
    /\ cres["w2"].op = "clear_pattern" /\ cres["w2"].pattern = <<"k", "*">>
    /\ cres["w2"].count = 1 /\ cres["w2"].n = ncops
    /\ cstore[K] = <<>>
    /\ zset["rate_limit:user:7"] = {<<"0", 0>>} /\ expireAt["rate_limit:user:7"] = 2
    /\ lastCall.n = 1 /\ lastCall.result
\* C32: a get with deserialize of a live entry, the store reachable, returns
\* the JSON decoding of what set wrote as JSON, the unpickled object of what
\* set wrote as a pickle (bytes the JSON decoding refuses), and absent for
\* bytes that neither decoding accepts (a value written without serialize
\* whose str is no JSON text); it never raises and leaves the store as it is.
C32_DecodeOrder ==
    [][\A p \in Procs :
          LET k == cres'[p].key
              h == lastSet[k][1]
          IN  /\ CacheDone(p, "get") /\ ~cres'[p].failed /\ cres'[p].deserialize
              /\ lastSet[k] # <<>> /\ now < ElapsesAt(lastSet[k][1])
              => /\ ~cres'[p].raised
                 /\ cstore' = cstore /\ cstore[k] # <<>>
                 /\ h.ser /\ JsonEncodable(h.v)
                    => cres'[p].value = JsonObject(JsonDoc(h.v))
                 /\ h.ser /\ ~JsonEncodable(h.v) => cres'[p].value = h.v
                 /\ ~h.ser /\ ~PlainJson(h.v) => cres'[p].value = PyNone]_vars

\* C32 witness: {"a": 1} was written without serialize, as the text
\* {'a': 1}; the get with deserialize returned absent and the entry is there.
C32_Witness ==
    /\ cres["w1"].op = "get" /\ cres["w1"].n = ncops /\ ~cres["w1"].failed
    /\ cres["w1"].deserialize /\ ~cres["w1"].raised
    /\ cres["w1"].value = PyNone
    /\ lastSet[K] # <<>> /\ lastSet[K][1].v = DictA /\ ~lastSet[K][1].ser
    /\ cstore[K] # <<>> /\ cstore[K][1].data = StrBytes(DictA)
\* C33: a key holds what the most recent successful set wrote and lives
\* until the time of that set plus its ttl (the default for None), whatever
\* was stored and whatever expiry was pending before: until then the entry
\* is that set's bytes with that expiry and a get returns that set's value,
\* from then on the key is gone; a set that fails replaces nothing.
C33_Overwrite ==
    [][/\ \A k \in CacheKeys :
            lastSet'[k] # <<>> =>
               LET h == lastSet'[k][1]
               IN  IF now' < ElapsesAt(h)
                   THEN /\ cstore'[k] # <<>>
                        /\ cstore'[k][1].exp = ElapsesAt(h)
                        /\ cstore'[k][1].data = JsonBytes(JsonDoc(h.v))
                   ELSE cstore'[k] = <<>>
       /\ \A p \in Procs :
            /\ CacheDone(p, "get") /\ lastSet[cres'[p].key] # <<>>
                  /\ now < ElapsesAt(lastSet[cres'[p].key][1])
               => cres'[p].value = lastSet[cres'[p].key][1].v
            /\ CacheDone(p, "set") /\ ~cres'[p].flag
               => cstore' = cstore /\ lastSet' = lastSet
            /\ CacheDone(p, "set") /\ cres'[p].flag
               => lastSet'[cres'[p].key] =
                     <<[t |-> now, ttl |-> cres'[p].ttl, v |-> cres'[p].value,
                        ser |-> TRUE]>>]_vars

\* C33 witness: at second 0 one worker set {"a": 1} with ttl 1 and the other
\* then set 1 with ttl 2; at second 1, past the first ttl, the key holds 1
\* and is due at second 2.
C33_Witness ==
    /\ cres["w1"].op = "set" /\ cres["w1"].n = 1 /\ cres["w1"].flag
    /\ cres["w1"].value = DictA /\ cres["w1"].ttl = <<1>>
    /\ cres["w2"].op = "set" /\ cres["w2"].n = 2 /\ cres["w2"].flag
    /\ cres["w2"].value = PyInt(1) /\ cres["w2"].ttl = <<2>>
    /\ lastSet[K] # <<>> /\ lastSet[K][1].t = 0 /\ now = 1
    /\ cstore[K] = <<[data |-> JsonBytes(JsonDoc(PyInt(1))), exp |-> 2]>>
\* k was set since it was last deleted and the ttl of that set has not elapsed
LiveByHistory(k) == lastSet[k] # <<>> /\ now < ElapsesAt(lastSet[k][1])

\* C34: with the store reachable, delete(k) returns true exactly when k was
\* live, removes k and leaves every other key as it was; exists(k) returns
\* true exactly when k is live and changes nothing; and for a key that is not
\* live (deleted and not set again, or expired) get returns absent.
C34_DeleteExists ==
    [][\A p \in Procs :
          LET k == cres'[p].key
          IN  /\ CacheDone(p, "delete") /\ ~cres'[p].failed
                 => /\ cres'[p].flag = LiveByHistory(k)
                    /\ cstore'[k] = <<>> /\ lastSet'[k] = <<>>
                    /\ \A j \in CacheKeys \ {k} : cstore'[j] = cstore[j]
              /\ CacheDone(p, "exists") /\ ~cres'[p].failed
                 => cres'[p].flag = LiveByHistory(k) /\ cstore' = cstore
              /\ CacheDone(p, "get") /\ ~cres'[p].failed /\ ~LiveByHistory(k)
                 => cres'[p].value = PyNone]_vars

\* C34 witness: ns:1 and ns:2 were set, delete(ns:1) returned true, ns:1 is
\* gone and ns:2 is still there.
C34_Witness ==
    /\ cres["w1"].op = "delete" /\ cres["w1"].key = Ns1 /\ cres["w1"].flag
    /\ cres["w1"].n = 3 /\ ~cres["w1"].failed
    /\ cstore[Ns1] = <<>> /\ lastSet[Ns1] = <<>>
    /\ cstore[Ns2] # <<>> /\ lastSet[Ns2] # <<>>
\* C35: when the last request on a key was rejected in second t and the
\* caller's next request on it comes at t + window or later, that request
\* is admitted; if it reached the store it counted no event.
C35_RetryAfterSuffices ==
    [][lastCall'.n # lastCall.n =>
         LET k == lastCall'.key
             w == quota[lastCall'.op].window
             t == LastEvent(k)
         IN  t # -1 /\ DeniedAt(k)[t] > 0 /\ now >= t + w
             => /\ lastCall'.result
                /\ out'.kind = "ran" /\ out'.bodyRan
                /\ ~lastCall'.failed => lastCall'.count = 0]_vars

\* C35 witness: limit 1, window 2: a request was rejected at second 0, the
\* caller waited, and its request at second 2 counted 0 and ran.
C35_Witness ==
    /\ lastCall.n = 3 /\ ~lastCall.failed /\ lastCall.result /\ lastCall.count = 0
    /\ quota[lastCall.op] = [limit |-> 1, window |-> 2]
    /\ now = 2 /\ hist[lastCall.key][0] = <<1, 1>> /\ hist[lastCall.key][2] = <<1, 0>>
    /\ out.kind = "ran" /\ out.bodyRan
\* C36: a caller that was denied in second t0 and has retried in every second
\* since is admitted again: by the time a whole window has passed since the
\* denial, this retry or one of the retries before it is admitted.
C36_RetryAdmitted ==
    [][CallStep =>
         LET k == lastCall'.key
             w == quota[lastCall'.op].window
         IN  \A t0 \in Times :
                /\ DeniedAt(k)[t0] > 0 /\ now >= t0 + w
                /\ \A u \in (t0 + 1)..(now - 1) : CallsAt(k)[u] > 0
                => \/ lastCall'.result
                   \/ \E u \in (t0 + 1)..now : AllowedAt(k)[u] > 0]_vars
\* C37: on every call of a wrapped operation the limiter is consulted before
\* the body runs: whatever the arguments, a body that ran was preceded by an
\* is_allowed call for that request.
C37_AlwaysConsulted ==
    out.bodyRan => out.consulted
\* C38: a broadcast that no other task disturbs attempts every connection
\* that was registered when it started, unregisters exactly those whose send
\* failed, and ends without raising even when sends fail.
C38_BroadcastAll ==
    [][ws.bc.pc = "iter" /\ ws'.bc.pc # "iter" /\ ws.bc.quiet
       => /\ ws'.bc.pc = "done"
          /\ ws.bc.start \subseteq ws.bc.attempted
          /\ Registered(ws'.active) = ws.bc.start \ ws.bc.failed]_vars

\* C39: when the handler of one socket ends and calls disconnect, every other
\* socket that is open, whose handler is running and that is registered
\* stays registered.
C39_StaysRegistered ==
    [][\A s \in Sockets :
          ws.hpc[s] = "open" /\ ws'.hpc[s] = "ended"
          => \A t \in Sockets \ {s} :
                ws.hpc[t] = "open" /\ ws.live[t] /\ t \in Registered(ws.active)
                => t \in Registered(ws'.active)]_vars
====
